---- MODULE Spec2Model ----
(***************************************************************************)
(* State-machine model of the tpo_monitor core: SignalEngine,              *)
(* TPOAnalyzer and VWAPCalculator.                                         *)
(*                                                                         *)
(* Numbers.  The program computes in binary floating point; the model      *)
(* computes the same expressions exactly, over integers:                   *)
(*   - confidences are counted in hundredths (0.25 is 25);                 *)
(*   - timestamps are milliseconds, cooldown_seconds is seconds;           *)
(*   - percentage tolerances are compared after cross-multiplication, so   *)
(*     no quotient is ever rounded.                                        *)
(* Optional values (Python None) are sets of at most one element.          *)
(***************************************************************************)
EXTENDS Integers, Sequences, FiniteSets, TLC

None == {}
Some(x) == {x}
Val(o) == CHOOSE x \in o : TRUE

Abs(x) == IF x < 0 THEN -x ELSE x
Min(a, b) == IF a <= b THEN a ELSE b
Max(a, b) == IF a >= b THEN a ELSE b

(***************************************************************************)
(* models.py enumerations                                                  *)
(***************************************************************************)
SignalType == {"LONG_ENTRY", "SHORT_ENTRY", "LONG_FAILURE", "SHORT_FAILURE"}

\* TPOStructureEvent, with "None" for an absent event
TPOStructureEvent ==
    {"VAL_BOUNCE", "VAL_BREAK", "VAH_REJECTION", "VAH_BREAKOUT",
     "POC_RECLAIM", "POC_BREAKDOWN", "INSIDE_VALUE_AREA", "OUTSIDE_VALUE_AREA"}

OrderFlowDirection == {"BULLISH", "BEARISH", "NEUTRAL"}

\* Candle: timestamp in minutes since the start of the month, prices in
\* half ticks, volume in contracts
Candle == [timestamp : Nat, open : Nat, high : Nat, low : Nat, close : Nat,
           volume : Nat]

\* VWAPData as the signal rules read it (check_signals is given plain numbers)
VWAPData == [vwap : Int, upper_1std : Int, lower_1std : Int, slope : Int]

\* TPOProfile: the key levels, as the signal rules read them
TPOProfile == [poc : Int, vah : Int, val : Int]

\* OrderFlowMetrics: the fields the signal rules read
OrderFlowMetrics ==
    [delta : Int, delta_trend : OrderFlowDirection, oi_change_percent : Int,
     consecutive_buy_bars : Nat, consecutive_sell_bars : Nat,
     absorption_detected : BOOLEAN]

\* config['signals']: thresholds in hundredths, VWAP tolerances in
\* thousandths, the cooldown in seconds
SignalsConfig ==
    [long : [min_confidence : Int, require_all_orderflow : BOOLEAN,
             vwap_pullback_tolerance : Int],
     short : [min_confidence : Int, require_all_orderflow : BOOLEAN,
              vwap_rejection_tolerance : Int],
     failure : [min_confidence : Int],
     cooldown_seconds : Int]

\* SignalConditions() as constructed with its defaults
SignalConditions ==
    [tpo_event |-> "None", vwap_aligned |-> FALSE, vwap_slope |-> 0,
     delta_confirmed |-> FALSE, cvd_confirmed |-> FALSE, oi_confirmed |-> FALSE,
     aggressive_flow |-> FALSE, absorption |-> FALSE,
     delta_flip |-> FALSE, cvd_divergence |-> FALSE]

(***************************************************************************)
(* State                                                                   *)
(***************************************************************************)
VARIABLES
    \* SignalEngine configuration (fixed at construction)
    long_config, short_config, failure_config, cooldown_seconds,
    \* SignalEngine fields
    last_long_signal_time, last_short_signal_time, last_failure_signal_time,
    recent_high, recent_low,
    \* history: the last check_signals call (arguments and outcome) and every
    \* signal emitted so far as <<signal_type, timestamp, n>>, n the number of
    \* signals of that type emitted before it
    call, emitted,
    \* the TPOAnalyzer (its fields), and its last update: the candle, the
    \* event returned and whether the call raised
    tpo, tpo_call,
    \* the VWAPCalculator (its fields), and its last update: the candle, the
    \* VWAPData returned and whether the call raised
    vwap_calc, vwap_call,
    \* history: every candle given to the VWAPCalculator, and the number of
    \* candles fed (bars closed) so far
    candles, fed,
    \* the OrderFlowAnalyzer (its fields) and its last operation: the name,
    \* the argument, the value returned and whether the call raised
    orderflow, of_call,
    \* history: the per-bar deltas recorded by finalize_bar since the last
    \* reset; the buy and sell quantity and the number of the trade
    \* deliveries since the last finalize_bar
    finalized, delivered,
    \* TradingSystem: where each thread is (OI polling, main, WebSocket), the
    \* is_running and warmup_complete flags, the last _on_candle call, and
    \* history: the order books given to update_from_orderbook, in order
    pc, is_running, warmup_complete, candle_call, orderbooks,
    \* the AlertManager (its throttling fields), and history: every signal
    \* given to send_signal_alert, in order, with whether it was dispatched
    alert_manager, alerted

alertVars == <<alert_manager, alerted>>

analyzerVars == <<tpo, tpo_call, vwap_calc, vwap_call, candles, fed>>

flowVars == <<orderflow, of_call, finalized, delivered>>

systemVars ==
    <<pc, is_running, warmup_complete, candle_call, orderbooks>>

engineVars == <<long_config, short_config, failure_config, cooldown_seconds,
                last_long_signal_time, last_short_signal_time,
                last_failure_signal_time, recent_high, recent_low,
                call, emitted>>

(***************************************************************************)
(* utils.is_near: tolerance is a percentage, given here in tenths of a     *)
(* percent.  abs((p1 - p2) / p2) * 100 <= tol                              *)
(***************************************************************************)
is_near(price1, price2, tolTenthPct) ==
    IF price2 = 0 THEN FALSE
    ELSE Abs(price1 - price2) * 1000 <= tolTenthPct * Abs(price2)

\* VWAPData.is_pullback_zone: abs(price - vwap) / vwap < tolerance, the
\* tolerance a plain fraction given here in thousandths.  Raises
\* ZeroDivisionError when vwap = 0 (see PullbackZoneRaises).
is_pullback_zone(vwap_data, price, tolMilli) ==
    IF vwap_data.vwap > 0
    THEN Abs(price - vwap_data.vwap) * 1000 < tolMilli * vwap_data.vwap
    ELSE Abs(price - vwap_data.vwap) * 1000 > tolMilli * vwap_data.vwap

PullbackZoneRaises(vwap_data) == vwap_data.vwap = 0

(***************************************************************************)
(* SignalEngine                                                            *)
(***************************************************************************)
\* the elapsed milliseconds compared with the cooldown in seconds
_is_in_cooldown_unscaled(last_signal_time, current_time) ==
    IF last_signal_time = None THEN FALSE
    ELSE (current_time - Val(last_signal_time)) < cooldown_seconds

_is_in_cooldown(last_signal_time, current_time) ==
    IF last_signal_time = None THEN FALSE
    ELSE (current_time - Val(last_signal_time)) < cooldown_seconds * 1000

\* a tracking that keeps the price of the last call
NewHigh_last(price) == Some(price)

\* _update_price_tracking
NewHigh(price) ==
    IF recent_high = None \/ price > Val(recent_high) THEN Some(price) ELSE recent_high
NewLow(price) ==
    IF recent_low = None \/ price < Val(recent_low) THEN Some(price) ELSE recent_low

\* Python truthiness of an Optional[float]: None and 0.0 are false
Truthy(o) == o # None /\ Val(o) # 0

AllPresent(tpo_data, vwap_data, orderflow_data) ==
    tpo_data # None /\ vwap_data # None /\ orderflow_data # None

\* the upside rule without its test against the tracked recent high
_check_upside_failure_any_high(price, tpo_data, vwap_data, orderflow_data, conditions, high) ==
    LET near_key_level == is_near(price, tpo_data.vah, 2)
                          \/ is_near(price, vwap_data.upper_1std, 2)
        confidence == 20
                      + (IF orderflow_data.delta < 0 THEN 30 ELSE 0)
                      + (IF orderflow_data.delta_trend # "BULLISH" THEN 20 ELSE 0)
                      + (IF orderflow_data.absorption_detected THEN 30 ELSE 0)
        marked == [conditions EXCEPT
                      !.tpo_event = "VAH_REJECTION",
                      !.delta_flip = @ \/ orderflow_data.delta < 0,
                      !.cvd_divergence = @ \/ orderflow_data.delta_trend # "BULLISH",
                      !.absorption = @ \/ orderflow_data.absorption_detected]
    IN  IF ~near_key_level THEN [conditions |-> conditions, confidence |-> 0]
        ELSE IF confidence < failure_config.min_confidence
             THEN [conditions |-> marked, confidence |-> 0]
        ELSE [conditions |-> marked, confidence |-> confidence]

\* _check_upside_failure: the confidence returned (0 = no pattern) and the
\* conditions object as the call leaves it (it is mutated in place)
_check_upside_failure(price, tpo_data, vwap_data, orderflow_data, conditions, high) ==
    LET near_key_level == is_near(price, tpo_data.vah, 2)
                          \/ is_near(price, vwap_data.upper_1std, 2)
        atHigh == Truthy(high) /\ price * 1000 >= Val(high) * 998
        confidence == 20
                      + (IF orderflow_data.delta < 0 THEN 30 ELSE 0)
                      + (IF orderflow_data.delta_trend # "BULLISH" THEN 20 ELSE 0)
                      + (IF orderflow_data.absorption_detected THEN 30 ELSE 0)
        marked == [conditions EXCEPT
                      !.tpo_event = "VAH_REJECTION",
                      !.delta_flip = @ \/ orderflow_data.delta < 0,
                      !.cvd_divergence = @ \/ orderflow_data.delta_trend # "BULLISH",
                      !.absorption = @ \/ orderflow_data.absorption_detected]
    IN  IF ~near_key_level THEN [conditions |-> conditions, confidence |-> 0]
        ELSE IF ~atHigh THEN [conditions |-> conditions, confidence |-> 0]
        ELSE IF confidence < failure_config.min_confidence
             THEN [conditions |-> marked, confidence |-> 0]
        ELSE [conditions |-> marked, confidence |-> confidence]

\* _check_downside_failure
_check_downside_failure(price, tpo_data, vwap_data, orderflow_data, conditions, low) ==
    LET near_key_level == is_near(price, tpo_data.val, 2)
                          \/ is_near(price, vwap_data.lower_1std, 2)
        atLow == Truthy(low) /\ price * 1000 <= Val(low) * 1002
        confidence == 20
                      + (IF orderflow_data.delta > 0 THEN 30 ELSE 0)
                      + (IF orderflow_data.delta_trend # "BEARISH" THEN 20 ELSE 0)
                      + (IF orderflow_data.absorption_detected THEN 30 ELSE 0)
        marked == [conditions EXCEPT
                      !.tpo_event = "VAL_BOUNCE",
                      !.delta_flip = @ \/ orderflow_data.delta > 0,
                      !.cvd_divergence = @ \/ orderflow_data.delta_trend # "BEARISH",
                      !.absorption = @ \/ orderflow_data.absorption_detected]
    IN  IF ~near_key_level THEN [conditions |-> conditions, confidence |-> 0]
        ELSE IF ~atLow THEN [conditions |-> conditions, confidence |-> 0]
        ELSE IF confidence < failure_config.min_confidence
             THEN [conditions |-> marked, confidence |-> 0]
        ELSE [conditions |-> marked, confidence |-> confidence]

\* A rule's outcome: the signal it returns (at most one), whether it raised,
\* and the confidence before the clamp (what the rule logs)
NoSignal == [signal |-> None, raised |-> FALSE]
Raised == [signal |-> None, raised |-> TRUE]

\* the event built with the confidence as accumulated
SignalEvent_unclamped(timestamp, signal_type, price, conditions, confidence) ==
    [timestamp |-> timestamp,
     price |-> price,
     conditions |-> conditions,
     confidence |-> confidence,
     signal_type |-> signal_type,
     raw_confidence |-> confidence]

\* SignalEvent(...) as the rules construct it; confidence=min(confidence, 1.0).
\* raw_confidence is the sum before the clamp (the value the rule logs).
SignalEvent(timestamp, signal_type, price, conditions, confidence) ==
    [timestamp |-> timestamp,
     price |-> price,
     conditions |-> conditions,
     confidence |-> Min(confidence, 100),
     signal_type |-> signal_type,
     raw_confidence |-> confidence]

Emit(current_time, signal_type, current_price, conditions, confidence) ==
    [signal |-> Some(SignalEvent(current_time, signal_type, current_price,
                                 conditions, confidence)),
     raised |-> FALSE]

\* _check_failure_patterns, evaluated with the price tracking already updated
_check_failure_patterns(current_time, current_price, tpo_data, vwap_data, orderflow_data, high, low) ==
    IF _is_in_cooldown(last_failure_signal_time, current_time) THEN NoSignal
    ELSE IF ~AllPresent(tpo_data, vwap_data, orderflow_data) THEN NoSignal
    ELSE
      LET t == Val(tpo_data)
          v == Val(vwap_data)
          o == Val(orderflow_data)
          up == _check_upside_failure(current_price, t, v, o, SignalConditions, high)
          down == _check_downside_failure(current_price, t, v, o, up.conditions, low)
      IN  IF up.confidence # 0
          THEN Emit(current_time, "SHORT_FAILURE", current_price,
                    up.conditions, up.confidence)
          ELSE IF down.confidence # 0
          THEN Emit(current_time, "LONG_FAILURE", current_price,
                    down.conditions, down.confidence)
          ELSE NoSignal

LongEvents == {"VAL_BOUNCE", "POC_RECLAIM", "VAH_BREAKOUT"}

\* the short rule's events with VAL_BOUNCE in the place of VAL_BREAK
ShortEvents_bounce == {"VAH_REJECTION", "POC_BREAKDOWN", "VAL_BOUNCE"}

ShortEvents == {"VAH_REJECTION", "POC_BREAKDOWN", "VAL_BREAK"}

\* The four long order-flow conditions, in the order the rule tests them
LongOrderFlow(o) ==
    <<o.delta > 0, o.delta_trend = "BULLISH",
      o.oi_change_percent > 0, o.consecutive_buy_bars >= 2>>

ShortOrderFlow(o) ==
    <<o.delta < 0, o.delta_trend = "BEARISH",
      o.oi_change_percent > 0, o.consecutive_sell_bars >= 2>>

\* of_conditions_met and of_score for a tuple of the four conditions
OfConditionsMet(f) == Cardinality({i \in 1..4 : f[i]})
\* the OI weight written as 0.10 like its neighbours
OfScore_flat(f) ==
    (IF f[1] THEN 10 ELSE 0) + (IF f[2] THEN 10 ELSE 0)
    + (IF f[3] THEN 10 ELSE 0) + (IF f[4] THEN 10 ELSE 0)

OfScore(f) ==
    (IF f[1] THEN 10 ELSE 0) + (IF f[2] THEN 10 ELSE 0)
    + (IF f[3] THEN 5 ELSE 0) + (IF f[4] THEN 10 ELSE 0)

\* the gate with require_all_orderflow ignored
OrderFlowPasses_any3(require_all_of, f) == OfConditionsMet(f) >= 3

\* the order-flow gate of both entry rules
OrderFlowPasses(require_all_of, f) ==
    IF require_all_of THEN OfConditionsMet(f) >= 4 ELSE OfConditionsMet(f) >= 3

\* _check_long_entry
_check_long_entry(current_time, current_price, tpo_data, tpo_event, vwap_data, orderflow_data) ==
    IF _is_in_cooldown(last_long_signal_time, current_time) THEN NoSignal
    ELSE IF ~AllPresent(tpo_data, vwap_data, orderflow_data) THEN NoSignal
    ELSE IF tpo_event \notin LongEvents THEN NoSignal
    ELSE IF PullbackZoneRaises(Val(vwap_data)) THEN Raised
    ELSE
      LET v == Val(vwap_data)
          o == Val(orderflow_data)
          above == current_price >= v.vwap
          pullback == is_pullback_zone(v, current_price,
                                       long_config.vwap_pullback_tolerance)
          vwap_valid == above \/ pullback
          f == LongOrderFlow(o)
          confidence == 25
                        + (IF above THEN 15 ELSE 0)
                        + (IF pullback THEN 25 ELSE 0)
                        + (IF v.slope > 0 THEN 10 ELSE 0)
                        + OfScore(f)
          conditions == [SignalConditions EXCEPT
                            !.tpo_event = tpo_event,
                            !.vwap_aligned = vwap_valid,
                            !.vwap_slope = IF v.slope > 0 THEN v.slope ELSE 0,
                            !.delta_confirmed = f[1],
                            !.cvd_confirmed = f[2],
                            !.oi_confirmed = f[3],
                            !.aggressive_flow = f[4]]
      IN  IF ~vwap_valid THEN NoSignal
          ELSE IF ~OrderFlowPasses(long_config.require_all_orderflow, f) THEN NoSignal
          ELSE IF confidence < long_config.min_confidence THEN NoSignal
          ELSE Emit(current_time, "LONG_ENTRY", current_price, conditions, confidence)

\* _check_short_entry
_check_short_entry(current_time, current_price, tpo_data, tpo_event, vwap_data, orderflow_data) ==
    IF _is_in_cooldown(last_short_signal_time, current_time) THEN NoSignal
    ELSE IF ~AllPresent(tpo_data, vwap_data, orderflow_data) THEN NoSignal
    ELSE IF tpo_event \notin ShortEvents THEN NoSignal
    ELSE IF PullbackZoneRaises(Val(vwap_data)) THEN Raised
    ELSE
      LET v == Val(vwap_data)
          o == Val(orderflow_data)
          below == current_price <= v.vwap
          rejection == is_pullback_zone(v, current_price,
                                        short_config.vwap_rejection_tolerance)
                       /\ o.delta < 0
          vwap_valid == below \/ rejection
          f == ShortOrderFlow(o)
          confidence == 25
                        + (IF below THEN 15 ELSE 0)
                        + (IF rejection THEN 25 ELSE 0)
                        + (IF v.slope < 0 THEN 10 ELSE 0)
                        + OfScore(f)
          conditions == [SignalConditions EXCEPT
                            !.tpo_event = tpo_event,
                            !.vwap_aligned = vwap_valid,
                            !.vwap_slope = IF v.slope < 0 THEN v.slope ELSE 0,
                            !.delta_confirmed = f[1],
                            !.cvd_confirmed = f[2],
                            !.oi_confirmed = f[3],
                            !.aggressive_flow = f[4]]
      IN  IF ~vwap_valid THEN NoSignal
          ELSE IF ~OrderFlowPasses(short_config.require_all_orderflow, f) THEN NoSignal
          ELSE IF confidence < short_config.min_confidence THEN NoSignal
          ELSE Emit(current_time, "SHORT_ENTRY", current_price, conditions, confidence)

\* the chain with the long rule consulted before the failure rule
\* a timer stamped by every call, whatever it returns
Stamped_always(last_signal_time, emitted_here, current_time) ==
    Some(current_time)

\* self.last_..._signal_time = current_time, where the rule of that
\* category generates its signal; the timer stands otherwise
Stamped(last_signal_time, emitted_here, current_time) ==
    IF emitted_here THEN Some(current_time) ELSE last_signal_time

Outcome_long_first(failure, long, short) ==
    IF long.signal # None \/ long.raised THEN long
    ELSE IF failure.signal # None \/ failure.raised THEN failure
    ELSE short

\* The priority chain of check_signals: the first rule that returns a signal
\* (or raises) ends the call
Outcome(failure, long, short) ==
    IF failure.signal # None \/ failure.raised THEN failure
    ELSE IF long.signal # None \/ long.raised THEN long
    ELSE short

\* check_signals(current_time, current_price, tpo_data, tpo_event, vwap_data,
\*               orderflow_data): the whole call
check_signals(current_time, current_price, tpo_data, tpo_event, vwap_data, orderflow_data) ==
    \* each rule is evaluated once and its result bound, as the call does
    \E high \in {NewHigh(current_price)}, low \in {NewLow(current_price)} :
    \E failure \in {_check_failure_patterns(current_time, current_price, tpo_data,
                                           vwap_data, orderflow_data, high, low)},
       long \in {_check_long_entry(current_time, current_price, tpo_data,
                                  tpo_event, vwap_data, orderflow_data)},
       short \in {_check_short_entry(current_time, current_price, tpo_data,
                                    tpo_event, vwap_data, orderflow_data)} :
    \E out \in {Outcome(failure, long, short)} :
    \E type \in {IF out.signal = None THEN "None" ELSE Val(out.signal).signal_type} :
        /\ recent_high' = high
        /\ recent_low' = low
        /\ last_failure_signal_time' =
              Stamped(last_failure_signal_time,
                      type \in {"LONG_FAILURE", "SHORT_FAILURE"}, current_time)
        /\ last_long_signal_time' =
              Stamped(last_long_signal_time, type = "LONG_ENTRY", current_time)
        /\ last_short_signal_time' =
              Stamped(last_short_signal_time, type = "SHORT_ENTRY", current_time)
        /\ call' = Some([long |-> long.signal, failure |-> failure.signal,
                    tpo_event |-> tpo_event, vwap_data |-> vwap_data,
                    current_time |-> current_time, tpo_data |-> tpo_data,
                    orderflow_data |-> orderflow_data,
                    signal |-> out.signal, raised |-> out.raised,
                    current_price |-> current_price,
                    cooldown |-> [long |-> _is_in_cooldown(last_long_signal_time, current_time),
                                  short |-> _is_in_cooldown(last_short_signal_time, current_time),
                                  failure |-> _is_in_cooldown(last_failure_signal_time, current_time)]])
        /\ emitted' = IF out.signal = None THEN emitted
                      ELSE emitted \cup {<<type, current_time,
                                            Cardinality({e \in emitted : e[1] = type})>>}
        /\ UNCHANGED <<alertVars, long_config, short_config, failure_config, cooldown_seconds>>

(***************************************************************************)
(* Inputs of check_signals.                                                *)
(*                                                                         *)
(* A bar is one call's arguments, flattened.  Prices are positive          *)
(* (exchange prices).  The profile is VAL 990 / POC 1000 / VAH 1010 and    *)
(* the VWAP 1000 with 1-sigma bands 998 / 1002, so the four prices meet    *)
(* the rules' price conditions in different mixes: 990 is at VAL, 998 at   *)
(* the lower band and below VWAP, 1002 at the upper band and above VWAP,   *)
(* 1010 at VAH.                                                            *)
(***************************************************************************)
Prices == {990, 998, 1002, 1010}
EventInputs == TPOStructureEvent \cup {"None"}
Slopes == {-1, 1}
Deltas == {-1, 0, 1}
OIChanges == {0, 1}
BarCounts == {0, 2}

TheProfile == [poc |-> 1000, vah |-> 1010, val |-> 990]
TheVWAP(slope) == [vwap |-> 1000, upper_1std |-> 1002, lower_1std |-> 998,
                   slope |-> slope]

\* the scenarios the rules are written for: a clean long, a clean short, a
\* long trap at VAH, a short trap at VAL, a three-of-four long on a pullback
\* below VWAP and a three-of-four short on a rejection above it
CleanLong ==
    [slope |-> 1, delta |-> 1, delta_trend |-> "BULLISH",
     oi_change_percent |-> 1,
     consecutive_buy_bars |-> 2, consecutive_sell_bars |-> 0,
     absorption_detected |-> FALSE,
     tpo_event |-> "VAH_BREAKOUT", price |-> 1002,
     has_tpo |-> TRUE, has_vwap |-> TRUE, has_orderflow |-> TRUE]

CleanShort ==
    [slope |-> -1, delta |-> -1, delta_trend |-> "BEARISH",
     oi_change_percent |-> 1,
     consecutive_buy_bars |-> 0, consecutive_sell_bars |-> 2,
     absorption_detected |-> FALSE,
     tpo_event |-> "VAH_REJECTION", price |-> 998,
     has_tpo |-> TRUE, has_vwap |-> TRUE, has_orderflow |-> TRUE]

LongTrap ==
    [slope |-> 1, delta |-> -1, delta_trend |-> "BEARISH",
     oi_change_percent |-> 0,
     consecutive_buy_bars |-> 0, consecutive_sell_bars |-> 0,
     absorption_detected |-> TRUE,
     tpo_event |-> "None", price |-> 1010,
     has_tpo |-> TRUE, has_vwap |-> TRUE, has_orderflow |-> TRUE]

ShortTrap ==
    [slope |-> -1, delta |-> 1, delta_trend |-> "BULLISH",
     oi_change_percent |-> 0,
     consecutive_buy_bars |-> 0, consecutive_sell_bars |-> 0,
     absorption_detected |-> TRUE,
     tpo_event |-> "None", price |-> 990,
     has_tpo |-> TRUE, has_vwap |-> TRUE, has_orderflow |-> TRUE]

PullbackLong ==
    [slope |-> 1, delta |-> 1, delta_trend |-> "BULLISH",
     oi_change_percent |-> 1,
     consecutive_buy_bars |-> 0, consecutive_sell_bars |-> 0,
     absorption_detected |-> FALSE,
     tpo_event |-> "POC_RECLAIM", price |-> 998,
     has_tpo |-> TRUE, has_vwap |-> TRUE, has_orderflow |-> TRUE]

RejectionShort ==
    [slope |-> -1, delta |-> -1, delta_trend |-> "BEARISH",
     oi_change_percent |-> 1,
     consecutive_buy_bars |-> 0, consecutive_sell_bars |-> 0,
     absorption_detected |-> FALSE,
     tpo_event |-> "POC_BREAKDOWN", price |-> 1002,
     has_tpo |-> TRUE, has_vwap |-> TRUE, has_orderflow |-> TRUE]

BaseBars == {CleanLong, CleanShort, LongTrap, ShortTrap, PullbackLong, RejectionShort}

\* a scenario and every bar that differs from it in one argument field
Around(b) ==
    {b}
    \cup {[b EXCEPT !.price = x] : x \in Prices}
    \cup {[b EXCEPT !.tpo_event = x] : x \in EventInputs}
    \cup {[b EXCEPT !.slope = x] : x \in Slopes}
    \cup {[b EXCEPT !.delta = x] : x \in Deltas}
    \cup {[b EXCEPT !.delta_trend = x] : x \in OrderFlowDirection}
    \cup {[b EXCEPT !.oi_change_percent = x] : x \in OIChanges}
    \cup {[b EXCEPT !.consecutive_buy_bars = x] : x \in BarCounts}
    \cup {[b EXCEPT !.consecutive_sell_bars = x] : x \in BarCounts}
    \cup {[b EXCEPT !.absorption_detected = x] : x \in BOOLEAN}
    \cup {[b EXCEPT !.has_tpo = FALSE], [b EXCEPT !.has_vwap = FALSE],
          [b EXCEPT !.has_orderflow = FALSE]}

Bars == UNION {Around(b) : b \in BaseBars}

\* the three snapshots of a bar, as the analyzers hand them over
TpoData(b) == IF b.has_tpo THEN Some(TheProfile) ELSE None
VwapData(b) == IF b.has_vwap THEN Some(TheVWAP(b.slope)) ELSE None
OrderflowData(b) ==
    IF b.has_orderflow
    THEN Some([delta |-> b.delta, delta_trend |-> b.delta_trend,
               oi_change_percent |-> b.oi_change_percent,
               consecutive_buy_bars |-> b.consecutive_buy_bars,
               consecutive_sell_bars |-> b.consecutive_sell_bars,
               absorption_detected |-> b.absorption_detected])
    ELSE None

\* SignalEngine configurations (config['signals']): thresholds in hundredths,
\* VWAP tolerances in thousandths, cooldown in seconds
Configs ==
    {[long |-> [min_confidence |-> 80, require_all_orderflow |-> TRUE,
                vwap_pullback_tolerance |-> 1],
      short |-> [min_confidence |-> 60, require_all_orderflow |-> FALSE,
                 vwap_rejection_tolerance |-> 3],
      failure |-> [min_confidence |-> 70],
      cooldown_seconds |-> 1],
     [long |-> [min_confidence |-> 60, require_all_orderflow |-> FALSE,
                vwap_pullback_tolerance |-> 3],
      short |-> [min_confidence |-> 80, require_all_orderflow |-> TRUE,
                 vwap_rejection_tolerance |-> 1],
      failure |-> [min_confidence |-> 50],
      cooldown_seconds |-> 2]}

(***************************************************************************)
(* Candles, sessions and ticks.                                            *)
(*                                                                         *)
(* Prices are counted in half ticks, so that prices off the tick grid      *)
(* exist; timestamps are minutes since the start of the month.             *)
(***************************************************************************)
\* TPOAnalyzer.tick_size = 0.1, in half ticks
TickSize == 2

\* utils.round_to_tick: round(price / tick_size) * tick_size.  Python's
\* round sends a tie to the even neighbour.
round_to_tick(price, tick_size) ==
    LET q == price \div tick_size
        r == price % tick_size
    IN  IF 2 * r < tick_size THEN q * tick_size
        ELSE IF 2 * r > tick_size THEN (q + 1) * tick_size
        ELSE IF q % 2 = 0 THEN q * tick_size
        ELSE (q + 1) * tick_size

\* utils.get_session_start, session_start_time in minutes after midnight:
\* the start of the session the timestamp falls in.  A time of day before
\* session_start_time belongs to the session of the previous day, computed
\* as replace(day=day - 1), which raises ValueError on the first of the
\* month (None here).
get_session_start(timestamp, session_start_time) ==
    LET day == timestamp \div 1440 + 1
        minute == timestamp % 1440
    IN  IF minute < session_start_time
        THEN IF day = 1 THEN None
             ELSE Some((day - 2) * 1440 + session_start_time)
        ELSE Some((day - 1) * 1440 + session_start_time)

(***************************************************************************)
(* Python dicts keyed by price, as the sequence of their entries in        *)
(* insertion order (the order dict iteration follows).                     *)
(***************************************************************************)
Keys(d) == {d[i].price : i \in DOMAIN d}
IndexOf(d, price) == CHOOSE i \in DOMAIN d : d[i].price = price

\* price_volume_map[key] += volume
AddVolume(price_volume_map, key, volume) ==
    IF key \in Keys(price_volume_map)
    THEN [price_volume_map EXCEPT ![IndexOf(price_volume_map, key)].volume = @ + volume]
    ELSE Append(price_volume_map, [volume |-> volume,
                                   price |-> key])

VolumeAt(price_volume_map, key) ==
    price_volume_map[IndexOf(price_volume_map, key)].volume

\* price_time_map[key].append(letter), skipped when if_absent is set and the
\* letter is already there
AppendLetter(price_time_map, key, letter, if_absent) ==
    IF key \in Keys(price_time_map)
    THEN LET i == IndexOf(price_time_map, key)
             letters == price_time_map[i].letters
         IN  IF if_absent /\ \E k \in DOMAIN letters : letters[k] = letter
             THEN price_time_map
             ELSE [price_time_map EXCEPT ![i].letters = Append(@, letter)]
    ELSE Append(price_time_map, [price |-> key, letters |-> <<letter>>])

(***************************************************************************)
(* TPOAnalyzer                                                             *)
(***************************************************************************)
\* config['tpo']: session_start in minutes after midnight (01:00),
\* session_duration in hours, time_slice_minutes, value_area_percent
TPOConfig ==
    [session_start |-> 60, session_duration |-> 24, time_slice_minutes |-> 30,
     value_area_percent |-> 70, structure |-> [proximity_ticks |-> 2]]

\* the volumes of price_volume_map are counted in 1/VolScale contracts, so
\* that the share of a candle's volume given to one price level is exact
VolScale == 60

\* TPOAnalyzer.__init__
TPOAnalyzer ==
    [price_volume_map |-> <<>>,
     price_time_map |-> <<>>,
     current_session_start |-> None,
     current_profile |-> None,
     previous_profile |-> None,
     current_letter_index |-> 0,
     last_slice_time |-> None,
     last_price |-> None]

\* a session change that keeps the two maps of the session before
_start_new_session_keep_maps(a, session_start) ==
    [a EXCEPT !.current_session_start = Some(session_start),
              !.previous_profile = IF a.current_profile # None
                                   THEN a.current_profile ELSE @,
              !.current_letter_index = 0,
              !.last_slice_time = None]

\* _start_new_session
_start_new_session(a, session_start) ==
    [a EXCEPT !.current_session_start = Some(session_start),
              !.previous_profile = IF a.current_profile # None
                                   THEN a.current_profile ELSE @,
              !.price_volume_map = <<>>,
              !.price_time_map = <<>>,
              !.current_letter_index = 0,
              !.last_slice_time = None]

_is_new_time_slice(a, timestamp) ==
    IF a.last_slice_time = None THEN TRUE
    ELSE timestamp - Val(a.last_slice_time) >= TPOConfig.time_slice_minutes

_advance_tpo_letter(a) ==
    [a EXCEPT !.current_letter_index = @ + 1]

\* chr(ord('A') + current_letter_index % 26), as the letter's number
Letter(a) == a.current_letter_index % 26

\* the while loop of _add_price_volume from current_price on
RECURSIVE Distribute(_, _, _, _)
Distribute(a, candle, current_price, volume_at_price) ==
    IF current_price > candle.high THEN a
    ELSE LET price_key == round_to_tick(current_price, TickSize)
         IN  Distribute(
                 [a EXCEPT !.price_volume_map =
                               AddVolume(@, price_key, volume_at_price),
                           !.price_time_map =
                               AppendLetter(@, price_key, Letter(a), TRUE)],
                 candle, current_price + TickSize, volume_at_price)

\* _add_price_volume: a candle without range puts its volume at its close,
\* as given; any other spreads it in equal shares
\* volume / (price_range / tick_size + 1) over the prices low, low + tick,
\* ... up to high, each rounded to the tick
_add_price_volume(a, candle) ==
    LET price_range == candle.high - candle.low
    IN  IF price_range = 0
        THEN [a EXCEPT !.price_volume_map =
                           AddVolume(@, candle.close, candle.volume * VolScale),
                       !.price_time_map =
                           AppendLetter(@, candle.close, Letter(a), FALSE)]
        ELSE Distribute(a, candle, candle.low,
                        (candle.volume * VolScale * TickSize)
                            \div (price_range + TickSize))

\* the last maximum of the distribution instead of the first
poc_price_last(price_volume_map) ==
    LET i == CHOOSE i \in DOMAIN price_volume_map :
                 /\ \A j \in DOMAIN price_volume_map :
                        price_volume_map[j].volume <= price_volume_map[i].volume
                 /\ \A j \in DOMAIN price_volume_map :
                        j > i => price_volume_map[j].volume < price_volume_map[i].volume
    IN  price_volume_map[i].price

\* max(self.price_volume_map.items(), key=lambda x: x[1])[0]: the first
\* entry, in the dict's order, whose volume no other exceeds
poc_price(price_volume_map) ==
    LET i == CHOOSE i \in DOMAIN price_volume_map :
                 /\ \A j \in DOMAIN price_volume_map :
                        price_volume_map[j].volume <= price_volume_map[i].volume
                 /\ \A j \in DOMAIN price_volume_map :
                        j < i => price_volume_map[j].volume < price_volume_map[i].volume
    IN  price_volume_map[i].price

\* sum(self.price_volume_map.values())
RECURSIVE total_volume(_)
total_volume(price_volume_map) ==
    IF price_volume_map = <<>> THEN 0
    ELSE Head(price_volume_map).volume + total_volume(Tail(price_volume_map))

\* total_volume * (value_area_percent / 100) with the quotient taken first,
\* as an integer
target_volume_floor(total) ==
    total * (TPOConfig.value_area_percent \div 100) * 100

\* target_volume = total_volume * (value_area_percent / 100), times 100
target_volume(total) ==
    total * TPOConfig.value_area_percent

\* sorted(S) for a set of prices
RECURSIVE Sorted(_)
Sorted(S) ==
    IF S = {} THEN <<>>
    ELSE LET least == CHOOSE x \in S : \A y \in S : x <= y
         IN  <<least>> \o Sorted(S \ {least})

\* the keys in the dict's own order
prices_unsorted(price_volume_map) ==
    [i \in DOMAIN price_volume_map |-> price_volume_map[i].price]

\* prices = sorted(self.price_volume_map.keys())
prices_sorted(price_volume_map) == Sorted(Keys(price_volume_map))

\* the expansion loop taking the lower level when the two neighbours have
\* the same volume
RECURSIVE Expand_lower_on_tie(_, _, _, _, _, _)
Expand_lower_on_tie(price_volume_map, prices, upper_index, lower_index, value_area_volume, target) ==
    IF ~(value_area_volume * 100 < target)
    THEN [upper_index |-> upper_index, lower_index |-> lower_index,
          value_area_volume |-> value_area_volume]
    ELSE
      LET can_up == upper_index + 1 <= Len(prices)
          can_down == lower_index - 1 >= 1
          volume_above == IF can_up
                          THEN VolumeAt(price_volume_map, prices[upper_index + 1])
                          ELSE 0
          volume_below == IF can_down
                          THEN VolumeAt(price_volume_map, prices[lower_index - 1])
                          ELSE 0
      IN  IF volume_below >= volume_above /\ can_down
          THEN Expand_lower_on_tie(price_volume_map, prices, upper_index,
                                   lower_index - 1,
                                   value_area_volume + volume_below, target)
          ELSE IF can_up
          THEN Expand_lower_on_tie(price_volume_map, prices, upper_index + 1,
                                   lower_index,
                                   value_area_volume + volume_above, target)
          ELSE [upper_index |-> upper_index, lower_index |-> lower_index,
                value_area_volume |-> value_area_volume]

\* the expansion loop of _calculate_profile: indices into prices (from 1)
RECURSIVE Expand(_, _, _, _, _, _)
Expand(price_volume_map, prices, upper_index, lower_index, value_area_volume, target) ==
    IF ~(value_area_volume * 100 < target)
    THEN [upper_index |-> upper_index, lower_index |-> lower_index,
          value_area_volume |-> value_area_volume]
    ELSE
      LET can_up == upper_index + 1 <= Len(prices)
          can_down == lower_index - 1 >= 1
          volume_above == IF can_up
                          THEN VolumeAt(price_volume_map, prices[upper_index + 1])
                          ELSE 0
          volume_below == IF can_down
                          THEN VolumeAt(price_volume_map, prices[lower_index - 1])
                          ELSE 0
      IN  IF volume_above >= volume_below /\ can_up
          THEN Expand(price_volume_map, prices, upper_index + 1, lower_index,
                      value_area_volume + volume_above, target)
          ELSE IF can_down
          THEN Expand(price_volume_map, prices, upper_index, lower_index - 1,
                      value_area_volume + volume_below, target)
          ELSE [upper_index |-> upper_index, lower_index |-> lower_index,
                value_area_volume |-> value_area_volume]

\* _calculate_profile
_calculate_profile(a) ==
    IF a.price_volume_map = <<>> THEN a
    ELSE
      LET poc == poc_price(a.price_volume_map)
          total == total_volume(a.price_volume_map)
          prices == prices_sorted(a.price_volume_map)
          poc_index == CHOOSE i \in DOMAIN prices : prices[i] = poc
          area == Expand(a.price_volume_map, prices, poc_index, poc_index,
                         VolumeAt(a.price_volume_map, poc), target_volume(total))
      IN  [a EXCEPT !.current_profile =
              Some([poc |-> poc,
                    vah |-> prices[area.upper_index],
                    val |-> prices[area.lower_index],
                    session_start |-> Val(a.current_session_start),
                    total_volume |-> total,
                    value_area_volume |-> area.value_area_volume,
                    session_end |-> Val(a.current_session_start)
                                    + TPOConfig.session_duration * 60,
                    price_levels |-> a.price_volume_map,
                    tpo_letters |-> a.price_time_map])]

\* TPOProfile.is_inside_value_area
is_inside_value_area(profile, price) ==
    profile.val <= price /\ price <= profile.vah

\* _detect_structure_event with the VAL events tested before the VAH events
_detect_structure_event_val_first(a, current_price) ==
    IF a.current_profile = None \/ a.last_price = None THEN "None"
    ELSE
      LET profile == Val(a.current_profile)
          last == Val(a.last_price)
          proximity == TPOConfig.structure.proximity_ticks
      IN  IF is_near(current_price, profile.val, proximity)
             /\ last > profile.val /\ current_price <= profile.val
          THEN "VAL_BREAK"
          ELSE IF is_near(current_price, profile.val, proximity)
             /\ last < profile.val /\ current_price >= profile.val
          THEN "VAL_BOUNCE"
          ELSE IF is_near(current_price, profile.vah, proximity)
             /\ last < profile.vah /\ current_price >= profile.vah
          THEN "VAH_BREAKOUT"
          ELSE IF is_near(current_price, profile.vah, proximity)
             /\ last > profile.vah /\ current_price <= profile.vah
          THEN "VAH_REJECTION"
          ELSE IF is_near(current_price, profile.poc, proximity)
             /\ last < profile.poc /\ current_price >= profile.poc
          THEN "POC_RECLAIM"
          ELSE IF is_near(current_price, profile.poc, proximity)
             /\ last > profile.poc /\ current_price <= profile.poc
          THEN "POC_BREAKDOWN"
          ELSE IF ~is_inside_value_area(profile, last)
                  /\ is_inside_value_area(profile, current_price)
          THEN "INSIDE_VALUE_AREA"
          ELSE IF is_inside_value_area(profile, last)
                  /\ ~is_inside_value_area(profile, current_price)
          THEN "OUTSIDE_VALUE_AREA"
          ELSE "None"

\* _detect_structure_event; proximity_ticks * tick_size (0.1) is handed to
\* is_near as its tolerance in percent, which is proximity_ticks tenths of a
\* percent
_detect_structure_event(a, current_price) ==
    IF a.current_profile = None \/ a.last_price = None THEN "None"
    ELSE
      LET profile == Val(a.current_profile)
          last == Val(a.last_price)
          proximity == TPOConfig.structure.proximity_ticks
      IN  IF is_near(current_price, profile.vah, proximity)
             /\ last < profile.vah /\ current_price >= profile.vah
          THEN "VAH_BREAKOUT"
          ELSE IF is_near(current_price, profile.vah, proximity)
             /\ last > profile.vah /\ current_price <= profile.vah
          THEN "VAH_REJECTION"
          ELSE IF is_near(current_price, profile.val, proximity)
             /\ last > profile.val /\ current_price <= profile.val
          THEN "VAL_BREAK"
          ELSE IF is_near(current_price, profile.val, proximity)
             /\ last < profile.val /\ current_price >= profile.val
          THEN "VAL_BOUNCE"
          ELSE IF is_near(current_price, profile.poc, proximity)
             /\ last < profile.poc /\ current_price >= profile.poc
          THEN "POC_RECLAIM"
          ELSE IF is_near(current_price, profile.poc, proximity)
             /\ last > profile.poc /\ current_price <= profile.poc
          THEN "POC_BREAKDOWN"
          ELSE IF ~is_inside_value_area(profile, last)
                  /\ is_inside_value_area(profile, current_price)
          THEN "INSIDE_VALUE_AREA"
          ELSE IF is_inside_value_area(profile, last)
                  /\ ~is_inside_value_area(profile, current_price)
          THEN "OUTSIDE_VALUE_AREA"
          ELSE "None"

\* TPOAnalyzer.update: the analyzer after the call, the event returned and
\* whether the call raised (then nothing was changed)
TPOAnalyzer_update(a, candle) ==
    LET session_start == get_session_start(candle.timestamp, TPOConfig.session_start)
    IN  IF session_start = None
        THEN [raised |-> TRUE,
              analyzer |-> a,
              event |-> "None"]
        ELSE
          LET a1 == IF a.current_session_start = None
                       \/ Val(session_start) # Val(a.current_session_start)
                    THEN _start_new_session(a, Val(session_start))
                    ELSE a
              a2 == IF _is_new_time_slice(a1, candle.timestamp)
                    THEN [_advance_tpo_letter(a1) EXCEPT
                              !.last_slice_time = Some(candle.timestamp)]
                    ELSE a1
              a4 == _calculate_profile(_add_price_volume(a2, candle))
          IN  [raised |-> FALSE,
               analyzer |-> [a4 EXCEPT !.last_price = Some(candle.close)],
               event |-> _detect_structure_event(a4, candle.close)]

(***************************************************************************)
(* VWAPCalculator                                                          *)
(*                                                                         *)
(* Quotients are kept as fractions in lowest terms.  The typical price     *)
(* (high + low + close) / 3 is carried as its numerator, so cumulative_pv  *)
(* holds three times, and cumulative_pv2 nine times, the program's sum.    *)
(***************************************************************************)
RECURSIVE GCD(_, _)
GCD(a, b) == IF b = 0 THEN a ELSE GCD(b, a % b)

\* the fraction n / d, d > 0, in lowest terms
Rat(n, d) ==
    LET g == GCD(Abs(n), d)
    IN  [num |-> n \div g, den |-> d \div g]

RatAdd(p, q) == Rat(p.num * q.den + q.num * p.den, p.den * q.den)
RatScale(k, p) == Rat(k * p.num, p.den)
RatSub(p, q) == RatAdd(p, RatScale(-1, q))
RatLeq(p, q) == p.num * q.den <= q.num * p.den

\* config['vwap']: session_reset in minutes after midnight (01:00),
\* slope_lookback_bars, and the pullback tolerance in tenths of a percent
VWAPConfig ==
    [pullback |-> [tolerance_percent |-> 50],
     session_reset |-> 60,
     slope_lookback_bars |-> 3]

\* VWAPCalculator.__init__
VWAPCalculator ==
    [current_session_start |-> None, cumulative_pv |-> 0,
     cumulative_volume |-> 0, cumulative_pv2 |-> 0, current_vwap |-> None,
     vwap_history |-> <<>>, consecutive_pullback_bars |-> 0,
     consecutive_rejection_bars |-> 0]

\* the reset that leaves the cumulative volume standing
_reset_session_keep_volume(c, session_start) ==
    [c EXCEPT !.current_session_start = Some(session_start),
              !.cumulative_pv = 0,
              !.cumulative_pv2 = 0,
              !.vwap_history = <<>>,
              !.consecutive_pullback_bars = 0,
              !.consecutive_rejection_bars = 0]

_reset_session(c, session_start) ==
    [c EXCEPT !.current_session_start = Some(session_start),
              !.cumulative_pv = 0,
              !.cumulative_volume = 0,
              !.cumulative_pv2 = 0,
              !.vwap_history = <<>>,
              !.consecutive_pullback_bars = 0,
              !.consecutive_rejection_bars = 0]

\* the sum over i of (2 i - (n - 1)) * values[i], i counted from 0: twice
\* the numerator of the regression slope
RECURSIVE SlopeSum(_, _, _)
SlopeSum(values, i, n) ==
    IF i > n THEN Rat(0, 1)
    ELSE RatAdd(RatScale(2 * (i - 1) - (n - 1), values[i]),
                SlopeSum(values, i + 1, n))

\* utils.calculate_slope: sum((x - x_mean) * (y - y_mean)) over
\* sum((x - x_mean) ** 2) for x = 0 .. n - 1, which is
\* 6 * SlopeSum / (n * (n * n - 1))
calculate_slope(values) ==
    LET n == Len(values)
    IN  IF n < 2 THEN Rat(0, 1)
        ELSE LET s == SlopeSum(values, 1, n)
             IN  Rat(6 * s.num, s.den * n * (n * n - 1))

_calculate_slope(c) ==
    IF Len(c.vwap_history) < 2 THEN Rat(0, 1)
    ELSE calculate_slope(c.vwap_history)

\* abs(price - v) / v * 100 <= tolerance for a fraction v, the tolerance in
\* tenths of a percent (v # 0)
WithinPercent(price, v, tolerance) ==
    IF v.num > 0
    THEN Abs(price * v.den - v.num) * 1000 <= tolerance * v.num
    ELSE Abs(price * v.den - v.num) * 1000 >= tolerance * v.num

\* VWAPCalculator.is_pullback (current_vwap is set when it is called)
is_pullback(c, price) ==
    WithinPercent(price, Val(c.current_vwap).vwap,
                  VWAPConfig.pullback.tolerance_percent)

\* VWAPCalculator.is_rejection
is_rejection(c, price) ==
    IF Len(c.vwap_history) < 2 THEN FALSE
    ELSE /\ WithinPercent(price, c.vwap_history[Len(c.vwap_history) - 1],
                          VWAPConfig.pullback.tolerance_percent)
         /\ ~WithinPercent(price, Val(c.current_vwap).vwap,
                           VWAPConfig.pullback.tolerance_percent)

\* a tracking in which a pullback bar leaves the rejection count standing
_update_pullback_tracking_keep(c, price) ==
    IF is_pullback(c, price)
    THEN [c EXCEPT !.consecutive_pullback_bars = @ + 1]
    ELSE IF is_rejection(c, price)
    THEN [c EXCEPT !.consecutive_pullback_bars = 0,
                   !.consecutive_rejection_bars = @ + 1]
    ELSE [c EXCEPT !.consecutive_pullback_bars = 0,
                   !.consecutive_rejection_bars = 0]

\* _update_pullback_tracking
_update_pullback_tracking(c, price) ==
    IF is_pullback(c, price)
    THEN [c EXCEPT !.consecutive_pullback_bars = @ + 1,
                   !.consecutive_rejection_bars = 0]
    ELSE IF is_rejection(c, price)
    THEN [c EXCEPT !.consecutive_pullback_bars = 0,
                   !.consecutive_rejection_bars = @ + 1]
    ELSE [c EXCEPT !.consecutive_pullback_bars = 0,
                   !.consecutive_rejection_bars = 0]

\* _update_pullback_tracking divides by the current VWAP in is_pullback
\* and, when that is false, by the VWAP before it in is_rejection: with a
\* divisor of 0 the call raises ZeroDivisionError
PullbackTrackingRaises(c, price) ==
    \/ Val(c.current_vwap).vwap.num = 0
    \/ /\ ~is_pullback(c, price)
       /\ Len(c.vwap_history) >= 2
       /\ c.vwap_history[Len(c.vwap_history) - 1].num = 0

\* deque(maxlen).append
AppendBounded(history, value, maxlen) ==
    IF Len(history) >= maxlen THEN Append(Tail(history), value)
    ELSE Append(history, value)

\* The float subtraction cumulative_pv2 / cumulative_volume - vwap ** 2
\* cancels two nearly equal numbers: its result is the exact difference
\* give or take a rounding error, here err / VarianceUlp for err in
\* RoundingErrors.
VarianceUlp == 100
RoundingErrors == {-1, 0, 1}

\* variance as update computes it from the sums after the candle
variance_computed(pv, pv2, volume, err) ==
    IF volume = 0 THEN Rat(0, 1)
    ELSE RatAdd(Rat(pv2 * volume - pv * pv, 9 * volume * volume),
                Rat(err, VarianceUlp))

\* the greatest r in lo .. hi with r * r <= x (lo * lo <= x < (hi + 1) ^ 2)
RECURSIVE ISqrtIn(_, _, _)
ISqrtIn(x, lo, hi) ==
    IF lo >= hi THEN lo
    ELSE LET mid == (lo + hi + 1) \div 2
         IN  IF mid * mid <= x THEN ISqrtIn(x, mid, hi)
             ELSE ISqrtIn(x, lo, mid - 1)

\* x ** 0.5 of a fraction x >= 0, rounded down to a multiple of
\* 1 / SqrtScale as the float result is rounded to a float
SqrtScale == 10
Sqrt(x) ==
    LET n == (x.num * SqrtScale * SqrtScale) \div x.den
    IN  Rat(ISqrtIn(n, 0, n), SqrtScale)

\* the square root taken of the variance as computed, with its sign
std_dev_unclamped(variance) ==
    IF variance.num < 0 THEN RatScale(-1, Sqrt(RatScale(-1, variance)))
    ELSE Sqrt(variance)

\* std_dev = max(0, variance) ** 0.5
std_dev(variance) ==
    IF variance.num < 0 THEN Sqrt(Rat(0, 1)) ELSE Sqrt(variance)

\* VWAPCalculator.update: the calculator after the call, the VWAPData
\* returned and whether the call raised.  A VWAP of 0 makes the pullback
\* tracking divide by zero, after the sums, the VWAPData and the history
\* were updated.
VWAPCalculator_update(c, candle, err) ==
    LET session_start == get_session_start(candle.timestamp, VWAPConfig.session_reset)
    IN  IF session_start = None
        THEN [raised |-> TRUE,
              variance |-> Rat(0, 1),
              calculator |-> c,
              result |-> None]
        ELSE
          LET c1 == IF c.current_session_start = None
                       \/ Val(session_start) # Val(c.current_session_start)
                    THEN _reset_session(c, Val(session_start))
                    ELSE c
              typical_price == candle.high + candle.low + candle.close
              pv == c1.cumulative_pv + typical_price * candle.volume
              volume == c1.cumulative_volume + candle.volume
              pv2 == c1.cumulative_pv2
                     + typical_price * typical_price * candle.volume
              vwap == IF volume = 0 THEN Rat(typical_price, 3)
                      ELSE Rat(pv, 3 * volume)
              variance == variance_computed(pv, pv2, volume, err)
              std == std_dev(variance)
              data == [timestamp |-> candle.timestamp,
                       vwap |-> vwap,
                       upper_1std |-> RatAdd(vwap, std),
                       lower_1std |-> RatSub(vwap, std),
                       slope |-> _calculate_slope(c1),
                       cumulative_volume |-> volume,
                       cumulative_vp |-> pv,
                       upper_2std |-> RatAdd(vwap, RatScale(2, std)),
                       lower_2std |-> RatSub(vwap, RatScale(2, std))]
              c2 == [c1 EXCEPT !.cumulative_pv = pv,
                               !.cumulative_volume = volume,
                               !.cumulative_pv2 = pv2,
                               !.current_vwap = Some(data),
                               !.vwap_history =
                                   AppendBounded(@, vwap,
                                                 VWAPConfig.slope_lookback_bars)]
          IN  IF PullbackTrackingRaises(c2, candle.close)
              THEN [raised |-> TRUE,
                    variance |-> variance,
                    calculator |-> c2,
                    result |-> None]
              ELSE [raised |-> FALSE,
                    variance |-> variance,
                    calculator |-> _update_pullback_tracking(c2, candle.close),
                    result |-> Some(data)]

(***************************************************************************)
(* OrderFlowAnalyzer.  Quantities (trade sizes, volumes, deltas, open      *)
(* interest, book sizes) are hundredths of a contract, bar prices whole    *)
(* numbers; ratios are exact fractions.                                    *)
(***************************************************************************)
\* config['orderflow']: the delta threshold in hundredths of a contract,
\* the absorption volume multiplier in tenths (2.0), the price tolerance
\* in tenths of a percent (0.1 %)
OrderFlowConfig ==
    [delta |-> [significant_threshold |-> 5, consecutive_bars |-> 2],
     absorption |-> [volume_multiplier |-> 20, price_move_tolerance |-> 1,
                     lookback_bars |-> 3],
     cvd |-> [trend_lookback |-> 3]]

\* deque(maxlen=100) of delta_history and cvd_history
HistoryMaxLen == 100

\* Trade: quantity and side (is_buy = not is_buyer_maker)
Trade == [quantity : Nat, is_buy : BOOLEAN]

\* OrderFlowAnalyzer.__init__
OrderFlowAnalyzer ==
    [consecutive_buy_bars |-> 0,
     consecutive_sell_bars |-> 0,
     absorption_detected |-> FALSE,
     current_delta |-> 0,
     cumulative_delta |-> 0,
     buy_volume_current |-> 0,
     sell_volume_current |-> 0,
     delta_history |-> <<>>,
     cvd_history |-> <<>>,
     volume_history |-> <<>>,
     price_history |-> <<>>,
     current_oi |-> 0,
     previous_oi |-> 0,
     current_imbalance_ratio |-> Rat(0, 1),
     cvd_trend |-> "NEUTRAL",
     absorption_price |-> None,
     absorption_volume |-> 0]

\* the sum of trade.quantity over the trades of a list on one side
RECURSIVE SideVolume(_, _)
SideVolume(trades, is_buy) ==
    IF trades = <<>> THEN 0
    ELSE (IF Head(trades).is_buy = is_buy THEN Head(trades).quantity ELSE 0)
         + SideVolume(Tail(trades), is_buy)

\* update_from_trades: the bar's volumes and delta become those of the list
update_from_trades(o, trades) ==
    LET buy_vol == SideVolume(trades, TRUE)
        sell_vol == SideVolume(trades, FALSE)
    IN  [o EXCEPT !.buy_volume_current = buy_vol,
                  !.sell_volume_current = sell_vol,
                  !.current_delta = buy_vol - sell_vol]

\* sum(level.quantity for level in levels[:5])
RECURSIVE TopVolume(_, _)
TopVolume(levels, n) ==
    IF levels = <<>> \/ n = 0 THEN 0
    ELSE Head(levels) + TopVolume(Tail(levels), n - 1)

\* the ratio with its sign
imbalance_signed(bid_volume, ask_volume) ==
    IF bid_volume + ask_volume > 0
    THEN Rat(ask_volume - bid_volume, bid_volume + ask_volume)
    ELSE Rat(0, 1)

\* abs(ask_volume - bid_volume) / total_volume, 0 for an empty total
imbalance(bid_volume, ask_volume) ==
    IF bid_volume + ask_volume > 0
    THEN Rat(Abs(ask_volume - bid_volume), bid_volume + ask_volume)
    ELSE Rat(0, 1)

\* update_from_orderbook: an order book is its two lists of level
\* quantities, best level first; a book with a side missing is ignored
update_from_orderbook(o, orderbook) ==
    IF orderbook.bids = <<>> \/ orderbook.asks = <<>> THEN o
    ELSE [o EXCEPT !.current_imbalance_ratio =
                       imbalance(TopVolume(orderbook.bids, 5),
                                 TopVolume(orderbook.asks, 5))]

\* update_oi
update_oi(o, new_oi) ==
    [o EXCEPT !.previous_oi = o.current_oi, !.current_oi = new_oi]

\* is_delta_bullish, is_delta_bearish
is_delta_bullish(o) ==
    /\ o.delta_history # <<>>
    /\ o.delta_history[Len(o.delta_history)]
           > OrderFlowConfig.delta.significant_threshold

is_delta_bearish(o) ==
    /\ o.delta_history # <<>>
    /\ o.delta_history[Len(o.delta_history)]
           < -OrderFlowConfig.delta.significant_threshold

\* the last n elements of a sequence of at least n
LastN(history, n) == SubSeq(history, Len(history) - n + 1, Len(history))

\* the elements of a sequence of integers as fractions
AsRats(history) == [i \in DOMAIN history |-> Rat(history[i], 1)]

\* _update_trend
_update_trend(o) ==
    IF Len(o.cvd_history) < OrderFlowConfig.cvd.trend_lookback
    THEN [o EXCEPT !.cvd_trend = "NEUTRAL"]
    ELSE LET slope == calculate_slope(
                          AsRats(LastN(o.cvd_history,
                                       OrderFlowConfig.cvd.trend_lookback)))
         IN  [o EXCEPT !.cvd_trend = IF slope.num > 0 THEN "BULLISH"
                                     ELSE IF slope.num < 0 THEN "BEARISH"
                                     ELSE "NEUTRAL"]

\* a counting in which a buying bar leaves the count of selling bars standing
_update_consecutive_bars_keep(o) ==
    IF is_delta_bullish(o)
    THEN [o EXCEPT !.consecutive_buy_bars = @ + 1]
    ELSE IF is_delta_bearish(o)
    THEN [o EXCEPT !.consecutive_sell_bars = @ + 1,
                   !.consecutive_buy_bars = 0]
    ELSE [o EXCEPT !.consecutive_buy_bars = 0,
                   !.consecutive_sell_bars = 0]

\* _update_consecutive_bars
_update_consecutive_bars(o) ==
    IF is_delta_bullish(o)
    THEN [o EXCEPT !.consecutive_buy_bars = @ + 1,
                   !.consecutive_sell_bars = 0]
    ELSE IF is_delta_bearish(o)
    THEN [o EXCEPT !.consecutive_sell_bars = @ + 1,
                   !.consecutive_buy_bars = 0]
    ELSE [o EXCEPT !.consecutive_buy_bars = 0,
                   !.consecutive_sell_bars = 0]

RECURSIVE SumSeq(_)
SumSeq(history) ==
    IF history = <<>> THEN 0 ELSE Head(history) + SumSeq(Tail(history))

\* recent_volume < avg_volume * volume_multiplier, the multiplier in tenths
VolumeBelow(volume_history) ==
    volume_history[Len(volume_history)] * Len(volume_history) * 10
        < SumSeq(volume_history) * OrderFlowConfig.absorption.volume_multiplier

\* abs((price - previous_price) / previous_price) * 100 <= tolerance, the
\* tolerance in tenths of a percent (previous_price # 0)
PriceHeld(price, previous_price) ==
    Abs(price - previous_price) * 1000
        <= OrderFlowConfig.absorption.price_move_tolerance * Abs(previous_price)

\* _check_absorption: the analyzer after the call and whether the call
\* raised (a previous price of 0 is divided by)
_check_absorption(o, price) ==
    IF Len(o.volume_history) < OrderFlowConfig.absorption.lookback_bars
    THEN [raised |-> FALSE, analyzer |-> [o EXCEPT !.absorption_detected = FALSE]]
    ELSE IF VolumeBelow(o.volume_history)
    THEN [raised |-> FALSE, analyzer |-> [o EXCEPT !.absorption_detected = FALSE]]
    ELSE IF Len(o.price_history) < 2
    THEN [raised |-> FALSE, analyzer |-> [o EXCEPT !.absorption_detected = FALSE]]
    ELSE IF o.price_history[Len(o.price_history) - 1] = 0
    THEN [raised |-> TRUE, analyzer |-> o]
    ELSE IF PriceHeld(price, o.price_history[Len(o.price_history) - 1])
    THEN [raised |-> FALSE,
          analyzer |-> [o EXCEPT !.absorption_detected = TRUE,
                                 !.absorption_price = Some(price),
                                 !.absorption_volume =
                                     o.volume_history[Len(o.volume_history)]]]
    ELSE [raised |-> FALSE, analyzer |-> [o EXCEPT !.absorption_detected = FALSE]]

\* finalize_bar up to _check_absorption (lines 165-180): the cumulative
\* delta, the histories, the trend, the consecutive bars and the
\* absorption; the analyzer after them and whether the call raised
record_bar(o, price) ==
    LET cumulative_delta == o.cumulative_delta + o.current_delta
        o1 == [o EXCEPT
                 !.cumulative_delta = cumulative_delta,
                 !.delta_history =
                     AppendBounded(@, o.current_delta, HistoryMaxLen),
                 !.cvd_history =
                     AppendBounded(@, cumulative_delta, HistoryMaxLen),
                 !.volume_history =
                     AppendBounded(@, o.buy_volume_current + o.sell_volume_current,
                                   OrderFlowConfig.absorption.lookback_bars),
                 !.price_history =
                     AppendBounded(@, price,
                                   OrderFlowConfig.absorption.lookback_bars)]
    IN  _check_absorption(_update_consecutive_bars(_update_trend(o1)), price)

\* the end of finalize_bar (lines 183-185): the current bar starts empty
reset_current_bar(o) ==
    [o EXCEPT !.current_delta = 0,
              !.buy_volume_current = 0,
              !.sell_volume_current = 0]

\* finalize_bar: the analyzer after the call and whether the call raised;
\* a call that raises in _check_absorption leaves the bar's delta and
\* volumes standing
finalize_bar(o, price) ==
    LET r == record_bar(o, price)
    IN  IF r.raised THEN r
        ELSE [raised |-> FALSE, analyzer |-> reset_current_bar(r.analyzer)]

\* check_delta_flip counting a bar without delta as a bar of either sign
check_delta_flip_weak(o) ==
    IF Len(o.delta_history) < 2 THEN FALSE
    ELSE LET previous_delta == o.delta_history[Len(o.delta_history) - 1]
             current_delta == o.delta_history[Len(o.delta_history)]
         IN  \/ previous_delta >= 0 /\ current_delta <= 0
             \/ previous_delta <= 0 /\ current_delta >= 0

\* check_delta_flip
check_delta_flip(o) ==
    IF Len(o.delta_history) < 2 THEN FALSE
    ELSE LET previous_delta == o.delta_history[Len(o.delta_history) - 1]
             current_delta == o.delta_history[Len(o.delta_history)]
         IN  \/ previous_delta > 0 /\ current_delta < 0
             \/ previous_delta < 0 /\ current_delta > 0

\* get_metrics: delta is the last finalized bar's, the volumes are those of
\* the bar in progress
get_metrics(o, timestamp) ==
    [timestamp |-> timestamp,
     delta |-> IF o.delta_history # <<>>
               THEN o.delta_history[Len(o.delta_history)] ELSE 0,
     delta_trend |-> o.cvd_trend,
     oi_change_percent |-> IF o.previous_oi > 0
                           THEN Rat((o.current_oi - o.previous_oi) * 100,
                                    o.previous_oi)
                           ELSE Rat(0, 1),
     consecutive_buy_bars |-> o.consecutive_buy_bars,
     consecutive_sell_bars |-> o.consecutive_sell_bars,
     absorption_detected |-> o.absorption_detected,
     total_volume |-> o.buy_volume_current + o.sell_volume_current,
     cumulative_delta |-> o.cumulative_delta,
     absorption_price |-> o.absorption_price,
     absorption_volume |-> o.absorption_volume,
     buy_volume |-> o.buy_volume_current,
     sell_volume |-> o.sell_volume_current,
     oi |-> o.current_oi,
     oi_change |-> o.current_oi - o.previous_oi,
     imbalance_ratio |-> o.current_imbalance_ratio]

\* the reset that leaves the cumulative delta standing
reset_keep_cumulative(o) ==
    [o EXCEPT !.cvd_history = <<>>,
              !.delta_history = <<>>,
              !.volume_history = <<>>,
              !.price_history = <<>>,
              !.consecutive_buy_bars = 0,
              !.consecutive_sell_bars = 0,
              !.absorption_detected = FALSE]

\* reset
reset(o) ==
    [o EXCEPT !.cumulative_delta = 0,
              !.cvd_history = <<>>,
              !.delta_history = <<>>,
              !.volume_history = <<>>,
              !.price_history = <<>>,
              !.consecutive_buy_bars = 0,
              !.consecutive_sell_bars = 0,
              !.absorption_detected = FALSE]

(***************************************************************************)
(* Candles fed to the analyzers                                            *)
(***************************************************************************)
\* the candle shapes: single prices on the tick grid (24, 20) and off it
\* (23), ranges of two ticks (20..24, 22..26), a range whose ends are not a
\* whole number of ticks apart (21..24), and a candle without volume
CandleShapes ==
    {[open |-> 24, high |-> 24, low |-> 24, close |-> 24, volume |-> 1],
     [open |-> 20, high |-> 20, low |-> 20, close |-> 20, volume |-> 1],
     [open |-> 23, high |-> 23, low |-> 23, close |-> 23, volume |-> 1],
     [open |-> 20, high |-> 24, low |-> 20, close |-> 24, volume |-> 1],
     [open |-> 26, high |-> 26, low |-> 22, close |-> 22, volume |-> 2],
     [open |-> 21, high |-> 24, low |-> 21, close |-> 24, volume |-> 1],
     [open |-> 26, high |-> 26, low |-> 26, close |-> 26, volume |-> 0]}

\* the instants candles close at: 00:30 on the first of the month (before
\* the first session start), 01:00 and 01:01 of the first session, 00:30 on
\* the second day (still the first session), and 01:00 and 01:30 on the
\* second day (the second session)
Timestamps == {30, 60, 61, 1470, 1500, 1530}

\* a shape closed at an instant
CandleAt(shape, timestamp) ==
    [timestamp |-> timestamp, open |-> shape.open, high |-> shape.high,
     low |-> shape.low, close |-> shape.close, volume |-> shape.volume]

\* the number of candles fed to an analyzer
MaxCandles == 4

\* where a thread is: the step it is at and the argument of the call it is
\* inside
At(step, arg) == [step |-> step, arg |-> arg]

\* the trades the feed delivers: buy 0.10, sell 0.20, buy 0.15
Trades ==
    {[quantity |-> 10, is_buy |-> TRUE],
     [quantity |-> 20, is_buy |-> FALSE],
     [quantity |-> 15, is_buy |-> TRUE]}

\* the lists update_from_trades is given: none, and the three trades at once
TradeLists ==
    {<<>>,
     <<[quantity |-> 10, is_buy |-> TRUE],
       [quantity |-> 20, is_buy |-> FALSE],
       [quantity |-> 15, is_buy |-> TRUE]>>}

\* the closing prices of the bars: a price, and one 1 % above it
BarPrices == {1000, 1010}

\* no trade delivered yet in the bar
NothingDelivered == [trades |-> 0,
                     buy |-> 0,
                     sell |-> 0]

\* the number of bars closed on an OrderFlowAnalyzer, and of trade
\* deliveries within one bar
MaxBars == 3

\* order books by their level quantities, best level first (hundredths of
\* a contract): a side may be empty, may hold nothing but a zero quantity,
\* and may have more than the five levels that count
BookSides == {<<>>, <<0>>, <<100>>, <<100, 100, 100, 100, 100, 400>>}
OrderBooks == {[bids |-> b, asks |-> a] : b \in BookSides, a \in BookSides}
MaxBooks == 3

\* open interest values the REST API returns
OpenInterests == {0, 1000}

\* the klines the feed closes while the system runs (one of them at a
\* price of 0), the instants they close at (00:30 on the first of the month
\* among them), and the klines the warm-up replays
LiveShapes ==
    {[open |-> 20, high |-> 24, low |-> 20, close |-> 24, volume |-> 1],
     [open |-> 26, high |-> 26, low |-> 22, close |-> 22, volume |-> 2],
     [open |-> 0, high |-> 0, low |-> 0, close |-> 0, volume |-> 1]}
LiveTimestamps == {30, 61, 1500}
HistoricalKlines ==
    {<<>>,
     <<[timestamp |-> 60, open |-> 24, high |-> 24, low |-> 24, close |-> 24,
        volume |-> 1]>>}
MaxLiveCandles == 2

\* SignalEngine compares prices with each other and tests signs: the
\* analyzers' half ticks and fractions are handed over as whole numbers of
\* 1/PriceScale half tick, and a timestamp in milliseconds
PriceScale == 180
MsPerMinute == 60000

\* the order books _process_ticker builds: the best bid and the best ask
TickerBooks ==
    {[bids |-> <<100>>, asks |-> <<a>>] : a \in {100, 300}}

\* candles of an instrument quoted at 0, with and without volume, and a
\* candle at a price; an order book whose levels are empty of quantity;
\* closing prices of bars with 0 among them; a VWAP of 0
ZeroCandleShapes ==
    {[open |-> 0, high |-> 0, low |-> 0, close |-> 0, volume |-> 1],
     [open |-> 0, high |-> 0, low |-> 0, close |-> 0, volume |-> 0],
     [open |-> 24, high |-> 24, low |-> 24, close |-> 24, volume |-> 1]}
ZeroTimestamps == {60, 61, 1500}
ZeroBook == [bids |-> <<0>>, asks |-> <<0, 0>>]
ZeroBarPrices == {0, 1000}
ZeroVWAP(slope) == [TheVWAP(slope) EXCEPT !.vwap = 0]
MaxTrades == 2

(***************************************************************************)
(* AlertManager: the throttling of signal alerts.  Signal timestamps are   *)
(* in ms, as in the program.                                               *)
(***************************************************************************)
\* the alerts configuration: an hourly limit of three alerts stands for the
\* configured limit
AlertConfig ==
    [enabled |-> TRUE,
     throttle |-> [enabled |-> TRUE, duplicate_window_seconds |-> 300,
                   max_alerts_per_hour |-> 3]]

\* AlertManager.__init__
AlertManager ==
    [max_alerts_per_hour |-> AlertConfig.throttle.max_alerts_per_hour,
     throttle_enabled |-> AlertConfig.throttle.enabled,
     duplicate_window |-> AlertConfig.throttle.duplicate_window_seconds,
     recent_alerts |-> {},
     hourly_alert_count |-> 0,
     hour_reset_time |-> None]

\* _get_alert_fingerprint: symbol, signal type and
\* int(timestamp / (duplicate_window * 1000))
_get_alert_fingerprint(a, signal) ==
    <<signal.symbol, signal.signal_type,
      signal.timestamp \div (a.duplicate_window * 1000)>>

\* _check_throttle, the hourly counter: reset when an hour has passed since
\* hour_reset_time
ResetHour(a, current_time) ==
    IF a.hour_reset_time = None
          \/ current_time - Val(a.hour_reset_time) > 3600000
    THEN [a EXCEPT !.hourly_alert_count = 0,
                   !.hour_reset_time = Some(current_time)]
    ELSE a

\* _check_throttle: the manager it leaves and whether the alert is to be sent
_check_throttle(a, signal) ==
    IF ~a.throttle_enabled THEN [manager |-> a, send |-> TRUE]
    ELSE [manager |-> ResetHour(a, signal.timestamp),
          send |-> /\ ResetHour(a, signal.timestamp).hourly_alert_count
                         < a.max_alerts_per_hour
                   /\ _get_alert_fingerprint(a, signal) \notin a.recent_alerts]

\* _track_alert: the set is cleared once it holds more than 100 fingerprints
_track_alert(a, signal) ==
    [a EXCEPT !.hourly_alert_count = @ + 1,
              !.recent_alerts =
                  IF Cardinality(@ \cup {_get_alert_fingerprint(a, signal)}) > 100
                  THEN {}
                  ELSE @ \cup {_get_alert_fingerprint(a, signal)}]

\* send_signal_alert: the manager it leaves and whether the alert went out
\* to the channels
send_signal_alert(a, signal) ==
    IF ~AlertConfig.enabled THEN [manager |-> a, send |-> FALSE]
    ELSE IF ~_check_throttle(a, signal).send
    THEN [manager |-> _check_throttle(a, signal).manager, send |-> FALSE]
    ELSE [manager |-> _track_alert(_check_throttle(a, signal).manager, signal),
          send |-> TRUE]

\* SignalEngine.__init__, TPOAnalyzer.__init__, VWAPCalculator.__init__
Init ==
    /\ \E c \in Configs :
          /\ long_config = c.long
          /\ short_config = c.short
          /\ failure_config = c.failure
          /\ cooldown_seconds = c.cooldown_seconds
    /\ last_long_signal_time = None
    /\ last_short_signal_time = None
    /\ last_failure_signal_time = None
    /\ recent_high = None
    /\ recent_low = None
    /\ call = None
    /\ emitted = {}
    /\ tpo = TPOAnalyzer
    /\ tpo_call = None
    /\ vwap_calc = VWAPCalculator
    /\ vwap_call = None
    /\ candles = <<>>
    /\ fed = 0
    /\ orderflow = OrderFlowAnalyzer
    /\ of_call = None
    /\ finalized = <<>>
    /\ delivered = NothingDelivered
    /\ pc = [oi |-> At("off", None),
             main |-> At("start", None),
             ws |-> At("off", None)]
    /\ is_running = FALSE
    /\ warmup_complete = FALSE
    /\ candle_call = None
    /\ orderbooks = <<>>
    /\ alert_manager = AlertManager
    /\ alerted = <<>>

vars == <<engineVars, analyzerVars, flowVars, systemVars, alertVars>>

\* one bar closes: check_signals on its snapshots (all bars at one instant)
CheckSignals ==
    /\ \E b \in Bars :
          check_signals(0, b.price, TpoData(b), b.tpo_event, VwapData(b),
                        OrderflowData(b))
    /\ UNCHANGED <<alertVars, analyzerVars, flowVars, systemVars>>

NextSignal == CheckSignals

SpecSignal == Init /\ [][NextSignal]_vars

(***************************************************************************)
(* The same engine called at arbitrary instants, half a second apart or    *)
(* more, in any order, with the four scenarios that end in the four        *)
(* signal types.                                                           *)
(***************************************************************************)
MaxStep == 3
Times == {k * 500 : k \in 0..MaxStep}

CooldownBars == {CleanLong, CleanShort, LongTrap, ShortTrap}

CheckSignalsAt ==
    /\ \E b \in CooldownBars, t \in Times :
          check_signals(t, b.price, TpoData(b), b.tpo_event, VwapData(b),
                        OrderflowData(b))
    /\ UNCHANGED <<alertVars, analyzerVars, flowVars, systemVars>>

NextCooldown == CheckSignalsAt

SpecCooldown == Init /\ [][NextCooldown]_vars

(***************************************************************************)
(* The same, with calls among them that return nothing outside a cooldown: *)
(* a snapshot is missing, no rule finds its event or its level, or the     *)
(* confidence stays below the minimum.                                     *)
(***************************************************************************)
QuietBars ==
    {[CleanLong EXCEPT !.has_vwap = FALSE],
     [CleanLong EXCEPT !.tpo_event = "None"],
     [CleanLong EXCEPT !.slope = -1, !.delta = 0]}

CheckSignalsOrQuiet ==
    /\ \E b \in CooldownBars \cup QuietBars, t \in Times :
          check_signals(t, b.price, TpoData(b), b.tpo_event, VwapData(b),
                        OrderflowData(b))
    /\ UNCHANGED <<alertVars, analyzerVars, flowVars, systemVars>>

NextTimers == CheckSignalsOrQuiet

SpecTimers == Init /\ [][NextTimers]_vars

(***************************************************************************)
(* The engine in a quiet session: a value area two ticks wide around 1000, *)
(* so that a price in it is within 0.2 % of VAH and of VAL at once, and    *)
(* every mix of delta, CVD trend and absorption.                           *)
(***************************************************************************)
NarrowProfile == [poc |-> 1000, vah |-> 1001, val |-> 999]
NarrowPrices == {999, 1000, 1001}

CheckSignalsNarrow ==
    /\ \E price \in NarrowPrices, delta \in Deltas,
          delta_trend \in OrderFlowDirection, absorption_detected \in BOOLEAN :
          check_signals(0, price, Some(NarrowProfile), "None", Some(TheVWAP(1)),
                        OrderflowData([LongTrap EXCEPT
                                          !.delta = delta,
                                          !.delta_trend = delta_trend,
                                          !.absorption_detected = absorption_detected]))
    /\ UNCHANGED <<alertVars, analyzerVars, flowVars, systemVars>>

NextNarrow == CheckSignalsNarrow

SpecNarrow == Init /\ [][NextNarrow]_vars

(***************************************************************************)
(* A TPOAnalyzer fed candles in the order of their timestamps.             *)
(***************************************************************************)
TPOUpdate ==
    /\ fed < MaxCandles
    /\ \E shape \in CandleShapes, timestamp \in Timestamps :
          /\ tpo_call # None => timestamp > Val(tpo_call).candle.timestamp
          /\ \E candle \in {CandleAt(shape, timestamp)} :
             \E r \in {TPOAnalyzer_update(tpo, candle)} :
                /\ tpo' = r.analyzer
                /\ tpo_call' = Some([raised |-> r.raised,
                                     candle |-> candle,
                                     event |-> r.event])
    /\ fed' = fed + 1
    /\ UNCHANGED <<alertVars, engineVars, vwap_calc, vwap_call, candles, flowVars, systemVars>>

NextTPO == TPOUpdate

SpecTPO == Init /\ [][NextTPO]_vars

(***************************************************************************)
(* A TPOAnalyzer on an instrument quoted near 200.0 (4000 half ticks),     *)
(* where 0.2 % of the price is four ticks: candles of a single price at    *)
(* 199.5, 200.0, 200.1 and 200.3.                                          *)
(***************************************************************************)
HighCandleShapes ==
    {[open |-> 4000, high |-> 4000, low |-> 4000, close |-> 4000, volume |-> 4],
     [open |-> 3990, high |-> 3990, low |-> 3990, close |-> 3990, volume |-> 2],
     [open |-> 4002, high |-> 4002, low |-> 4002, close |-> 4002, volume |-> 1],
     [open |-> 4006, high |-> 4006, low |-> 4006, close |-> 4006, volume |-> 1]}

TPOUpdateHigh ==
    /\ fed < MaxCandles
    /\ \E shape \in HighCandleShapes, timestamp \in Timestamps :
          /\ tpo_call # None => timestamp > Val(tpo_call).candle.timestamp
          /\ \E candle \in {CandleAt(shape, timestamp)} :
             \E r \in {TPOAnalyzer_update(tpo, candle)} :
                /\ tpo' = r.analyzer
                /\ tpo_call' = Some([raised |-> r.raised,
                                     candle |-> candle,
                                     event |-> r.event])
    /\ fed' = fed + 1
    /\ UNCHANGED <<alertVars, engineVars, vwap_calc, vwap_call, candles, flowVars, systemVars>>

NextTPOHigh == TPOUpdateHigh

SpecTPOHigh == Init /\ [][NextTPOHigh]_vars

(***************************************************************************)
(* A VWAPCalculator fed candles in the order of their timestamps.          *)
(***************************************************************************)
VWAPUpdate ==
    /\ fed < MaxCandles
    /\ \E shape \in CandleShapes, timestamp \in Timestamps,
          err \in RoundingErrors :
          /\ vwap_call # None => timestamp > Val(vwap_call).candle.timestamp
          /\ \E candle \in {CandleAt(shape, timestamp)} :
             \E r \in {VWAPCalculator_update(vwap_calc, candle, err)} :
                /\ vwap_calc' = r.calculator
                /\ vwap_call' = Some([raised |-> r.raised,
                                      candle |-> candle,
                                      result |-> r.result,
                                      negative_variance |-> r.variance.num < 0])
                /\ candles' = Append(candles, candle)
    /\ fed' = fed + 1
    /\ UNCHANGED <<alertVars, engineVars, tpo, tpo_call, flowVars, systemVars>>

NextVWAP == VWAPUpdate

SpecVWAP == Init /\ [][NextVWAP]_vars

(***************************************************************************)
(* An OrderFlowAnalyzer given trades (in lists, or one at a time by the    *)
(* trade callback), closed bar after bar, asked for its metrics and its    *)
(* delta flip, and reset.                                                  *)
(***************************************************************************)
\* the record of an operation on the OrderFlowAnalyzer
OfCall(op, raised, result) ==
    Some([raised |-> raised, result |-> result, op |-> op])

\* the bookkeeping of a trade delivery
Delivered(trades) ==
    [trades |-> delivered.trades + 1,
     buy |-> delivered.buy + SideVolume(trades, TRUE),
     sell |-> delivered.sell + SideVolume(trades, FALSE)]

\* update_from_trades with the trades of a period
UpdateFromTrades ==
    /\ delivered.trades < MaxTrades
    /\ \E trades \in TradeLists :
          /\ orderflow' = update_from_trades(orderflow, trades)
          /\ of_call' = OfCall("update_from_trades", FALSE, None)
          /\ delivered' = Delivered(trades)
    /\ UNCHANGED <<alertVars, engineVars, analyzerVars, finalized, systemVars>>

\* TradingSystem._on_trade: update_from_trades([trade])
OnTrade ==
    /\ delivered.trades < MaxTrades
    /\ \E trade \in Trades :
          /\ orderflow' = update_from_trades(orderflow, <<trade>>)
          /\ of_call' = OfCall("_on_trade", FALSE, None)
          /\ delivered' = Delivered(<<trade>>)
    /\ UNCHANGED <<alertVars, engineVars, analyzerVars, finalized, systemVars>>

\* finalize_bar at a closing price; the record keeps the delta the bar was
\* closed with and what had been delivered since the bar before
CloseBar(price) ==
    \E r \in {finalize_bar(orderflow, price)} :
       /\ orderflow' = r.analyzer
       /\ of_call' = OfCall("finalize_bar", r.raised,
                            Some([delta |-> orderflow.current_delta,
                                  delivered |-> delivered]))
       /\ finalized' = Append(finalized, orderflow.current_delta)
       /\ delivered' = NothingDelivered
       /\ fed' = fed + 1

FinalizeBar ==
    /\ fed < MaxBars
    /\ \E price \in BarPrices : CloseBar(price)
    /\ UNCHANGED <<alertVars, engineVars, tpo, tpo_call, vwap_calc, vwap_call, candles,
                   systemVars>>

\* get_metrics
GetMetrics ==
    /\ of_call' = OfCall("get_metrics", FALSE, Some(get_metrics(orderflow, 0)))
    /\ UNCHANGED <<alertVars, engineVars, analyzerVars, orderflow, finalized, delivered,
                   systemVars>>

\* check_delta_flip
CheckDeltaFlip ==
    /\ of_call' = OfCall("check_delta_flip", FALSE,
                         Some(check_delta_flip(orderflow)))
    /\ UNCHANGED <<alertVars, engineVars, analyzerVars, orderflow, finalized, delivered,
                   systemVars>>

\* reset
Reset ==
    /\ orderflow' = reset(orderflow)
    /\ of_call' = OfCall("reset", FALSE, None)
    /\ finalized' = <<>>
    /\ UNCHANGED <<alertVars, engineVars, analyzerVars, delivered, systemVars>>

\* TradingSystem._on_orderbook: update_from_orderbook
UpdateFromOrderbook ==
    /\ Len(orderbooks) < MaxBooks
    /\ \E orderbook \in OrderBooks :
          /\ orderflow' = update_from_orderbook(orderflow, orderbook)
          /\ orderbooks' = Append(orderbooks, orderbook)
    /\ of_call' = OfCall("update_from_orderbook", FALSE, None)
    /\ UNCHANGED <<alertVars, engineVars, analyzerVars, finalized, delivered, pc,
                   is_running, warmup_complete, candle_call>>

\* poll_oi: update_oi with the open interest fetched
UpdateOI ==
    /\ \E new_oi \in OpenInterests :
          orderflow' = update_oi(orderflow, new_oi)
    /\ of_call' = OfCall("update_oi", FALSE, None)
    /\ UNCHANGED <<alertVars, engineVars, analyzerVars, finalized, delivered, systemVars>>

NextOrderFlow ==
    \/ UpdateFromTrades
    \/ OnTrade
    \/ FinalizeBar
    \/ GetMetrics
    \/ CheckDeltaFlip
    \/ Reset

\* the analyzers do not read the SignalEngine's configuration: they are
\* followed next to an engine of the first configuration
InitAnalyzers == Init /\ cooldown_seconds = 1

SpecOrderFlow == InitAnalyzers /\ [][NextOrderFlow]_vars

(***************************************************************************)
(* An OrderFlowAnalyzer fed order books and open interest, and read by     *)
(* get_metrics.                                                            *)
(***************************************************************************)
NextOrderBook ==
    \/ UpdateFromOrderbook
    \/ UpdateOI
    \/ GetMetrics

SpecOrderBook == InitAnalyzers /\ [][NextOrderBook]_vars

(***************************************************************************)
(* The operations that divide by a reference value, called with the        *)
(* reference at 0: a VWAP of 0, a previous open interest of 0, an order     *)
(* book without quantity, a previous closing price of 0.                   *)
(***************************************************************************)
\* VWAPCalculator.update with a candle that may be at price 0
ZeroCandleUpdate ==
    /\ fed < MaxBars
    /\ \E shape \in ZeroCandleShapes, timestamp \in ZeroTimestamps :
          /\ vwap_call # None => timestamp > Val(vwap_call).candle.timestamp
          /\ \E candle \in {CandleAt(shape, timestamp)} :
             \E r \in {VWAPCalculator_update(vwap_calc, candle, 0)} :
                /\ vwap_calc' = r.calculator
                /\ vwap_call' = Some([raised |-> r.raised,
                                      candle |-> candle,
                                      result |-> r.result,
                                      negative_variance |-> r.variance.num < 0])
                /\ candles' = Append(candles, candle)
    /\ fed' = fed + 1
    /\ UNCHANGED <<alertVars, engineVars, tpo, tpo_call, flowVars, systemVars>>

\* finalize_bar of a bar without trades at a closing price that may be 0
ZeroPriceBar ==
    /\ fed < MaxBars
    /\ \E price \in ZeroBarPrices : CloseBar(price)
    /\ UNCHANGED <<alertVars, engineVars, tpo, tpo_call, vwap_calc, vwap_call, candles,
                   systemVars>>

\* update_from_orderbook with a book whose levels hold no quantity
ZeroOrderbook ==
    /\ Len(orderbooks) < MaxBooks
    /\ orderflow' = update_from_orderbook(orderflow, ZeroBook)
    /\ orderbooks' = Append(orderbooks, ZeroBook)
    /\ of_call' = OfCall("update_from_orderbook", FALSE, None)
    /\ UNCHANGED <<alertVars, engineVars, analyzerVars, finalized, delivered, pc,
                   is_running, warmup_complete, candle_call>>

\* check_signals with a VWAP of 0
CheckSignalsAtZero ==
    /\ \E b \in {CleanLong, CleanShort} :
          check_signals(0, b.price, TpoData(b), b.tpo_event,
                        Some(ZeroVWAP(b.slope)), OrderflowData(b))
    /\ UNCHANGED <<alertVars, analyzerVars, flowVars, systemVars>>

NextZero ==
    \/ ZeroCandleUpdate
    \/ ZeroPriceBar
    \/ ZeroOrderbook
    \/ UpdateOI
    \/ GetMetrics
    \/ CheckSignalsAtZero

SpecZero == InitAnalyzers /\ [][NextZero]_vars

(***************************************************************************)
(* A TradingSystem on one symbol, its callbacks and its warm-up taken one  *)
(* at a time: the warm-up replay, trades between the candles, and the      *)
(* candle handler, which calls the three analyzers and                     *)
(* then the SignalEngine, and logs whatever one of them raises.            *)
(***************************************************************************)
Sign(n) == IF n > 0 THEN 1 ELSE IF n < 0 THEN -1 ELSE 0
Scaled(r) == (r.num * PriceScale) \div r.den

\* the snapshots as check_signals is given them
EngineProfile(profile) ==
    IF profile = None THEN None
    ELSE Some([poc |-> Val(profile).poc * PriceScale,
               vah |-> Val(profile).vah * PriceScale,
               val |-> Val(profile).val * PriceScale])
EngineVWAP(data) ==
    IF data = None THEN None
    ELSE Some([vwap |-> Scaled(Val(data).vwap),
               upper_1std |-> Scaled(Val(data).upper_1std),
               lower_1std |-> Scaled(Val(data).lower_1std),
               slope |-> Sign(Val(data).slope.num)])
EngineMetrics(metrics) ==
    Some([delta |-> metrics.delta,
          delta_trend |-> metrics.delta_trend,
          oi_change_percent |-> Sign(metrics.oi_change_percent.num),
          consecutive_buy_bars |-> metrics.consecutive_buy_bars,
          consecutive_sell_bars |-> metrics.consecutive_sell_bars,
          absorption_detected |-> metrics.absorption_detected])

\* the three updates of the warm-up, kline after kline
RECURSIVE Replay(_, _)
Replay(analyzers, klines) ==
    IF klines = <<>> THEN analyzers
    ELSE Replay([vwap |-> VWAPCalculator_update(analyzers.vwap, Head(klines),
                                                0).calculator,
                 tpo |-> TPOAnalyzer_update(analyzers.tpo, Head(klines)).analyzer,
                 orderflow |-> finalize_bar(analyzers.orderflow,
                                            Head(klines).close).analyzer],
                Tail(klines))

\* start: _warmup replays the historical klines, then the system is live
Warmup ==
    /\ ~warmup_complete
    /\ \E klines \in HistoricalKlines :
       \E r \in {Replay([vwap |-> vwap_calc, tpo |-> tpo,
                         orderflow |-> orderflow], klines)} :
          /\ tpo' = r.tpo
          /\ vwap_calc' = r.vwap
          /\ orderflow' = r.orderflow
          /\ candles' = candles \o klines
    /\ warmup_complete' = TRUE
    /\ is_running' = TRUE
    /\ UNCHANGED <<alertVars, engineVars, tpo_call, vwap_call, fed, of_call, finalized,
                   delivered, pc, candle_call, orderbooks>>

\* what _on_candle did with a candle: whether it came after the warm-up,
\* the calls that returned, in order, whether one raised, and what the
\* analyzers handed over
Handled(candle, applied, raised, event, profile, data, metrics) ==
    Some([tpo_event |-> event, vwap_data |-> data, tpo_data |-> profile,
          orderflow_data |-> metrics, raised |-> raised, candle |-> candle,
          applied |-> applied, after_warmup |-> warmup_complete])

\* _on_candle before the warm-up is complete: the candle is dropped
OnCandleEarly ==
    /\ ~warmup_complete
    /\ fed < MaxLiveCandles
    /\ \E shape \in LiveShapes, timestamp \in LiveTimestamps :
          candle_call' = Handled(CandleAt(shape, timestamp), <<>>, FALSE,
                                 "None", None, None, None)
    /\ fed' = fed + 1
    /\ UNCHANGED <<alertVars, engineVars, tpo, tpo_call, vwap_calc, vwap_call, candles,
                   flowVars, pc, is_running, warmup_complete, orderbooks>>

\* _on_candle, TPOAnalyzer.update raises: nothing else is called
CandleStopsAtTPO(candle, t) ==
    /\ t.raised
    /\ tpo' = t.analyzer
    /\ tpo_call' = Some([raised |-> TRUE, candle |-> candle, event |-> t.event])
    /\ candle_call' = Handled(candle, <<>>, TRUE, "None", None, None, None)
    /\ UNCHANGED <<alertVars, engineVars, vwap_calc, vwap_call, candles, flowVars>>

\* _on_candle, VWAPCalculator.update raises after the TPO update
CandleStopsAtVWAP(candle, t, v) ==
    /\ ~t.raised
    /\ v.raised
    /\ tpo' = t.analyzer
    /\ tpo_call' = Some([raised |-> FALSE, candle |-> candle, event |-> t.event])
    /\ vwap_calc' = v.calculator
    /\ vwap_call' = Some([raised |-> TRUE,
                          candle |-> candle,
                          result |-> v.result,
                          negative_variance |-> v.variance.num < 0])
    /\ candles' = Append(candles, candle)
    /\ candle_call' = Handled(candle, <<"TPOAnalyzer.update">>, TRUE, t.event,
                              t.analyzer.current_profile, None, None)
    /\ UNCHANGED <<alertVars, engineVars, flowVars>>

\* the TPO and the VWAP update of a candle have returned
CandleUpdated(candle, t, v) ==
    /\ ~t.raised
    /\ ~v.raised
    /\ tpo' = t.analyzer
    /\ tpo_call' = Some([raised |-> FALSE, candle |-> candle, event |-> t.event])
    /\ vwap_calc' = v.calculator
    /\ vwap_call' = Some([raised |-> FALSE,
                          candle |-> candle,
                          result |-> v.result,
                          negative_variance |-> v.variance.num < 0])
    /\ candles' = Append(candles, candle)

\* _on_candle, finalize_bar raises after the TPO and the VWAP update
CandleStopsAtFinalize(candle, t, v, f) ==
    /\ CandleUpdated(candle, t, v)
    /\ f.raised
    /\ orderflow' = f.analyzer
    /\ of_call' = OfCall("finalize_bar", TRUE, None)
    /\ finalized' = Append(finalized, orderflow.current_delta)
    /\ candle_call' = Handled(candle,
                              <<"TPOAnalyzer.update", "VWAPCalculator.update">>,
                              TRUE, t.event, t.analyzer.current_profile,
                              v.result, None)
    /\ UNCHANGED <<alertVars, engineVars, delivered>>

\* _on_candle, the three updates return: get_metrics and check_signals
CandleChecked(candle, t, v, f) ==
    /\ CandleUpdated(candle, t, v)
    /\ ~f.raised
    /\ \E metrics \in {get_metrics(f.analyzer, candle.timestamp)} :
          /\ orderflow' = f.analyzer
          /\ of_call' = OfCall("get_metrics", FALSE, Some(metrics))
          /\ finalized' = Append(finalized, orderflow.current_delta)
          /\ delivered' = NothingDelivered
          /\ check_signals(candle.timestamp * MsPerMinute,
                           candle.close * PriceScale,
                           EngineProfile(t.analyzer.current_profile), t.event,
                           EngineVWAP(v.result), EngineMetrics(metrics))
          /\ candle_call' =
                Handled(candle,
                        <<"TPOAnalyzer.update", "VWAPCalculator.update",
                          "OrderFlowAnalyzer.finalize_bar",
                          "SignalEngine.check_signals">>,
                        FALSE, t.event, t.analyzer.current_profile, v.result,
                        Some(metrics))

\* _on_candle once the warm-up is complete
OnCandle ==
    /\ warmup_complete
    /\ fed < MaxLiveCandles
    /\ \E shape \in LiveShapes, timestamp \in LiveTimestamps,
          err \in RoundingErrors :
          /\ candles # <<>> => timestamp > candles[Len(candles)].timestamp
          /\ \E candle \in {CandleAt(shape, timestamp)} :
             \E t \in {TPOAnalyzer_update(tpo, candle)} :
             \E v \in {VWAPCalculator_update(vwap_calc, candle, err)} :
             \E f \in {finalize_bar(orderflow, candle.close)} :
                \/ CandleStopsAtTPO(candle, t)
                \/ CandleStopsAtVWAP(candle, t, v)
                \/ CandleStopsAtFinalize(candle, t, v, f)
                \/ CandleChecked(candle, t, v, f)
    /\ fed' = fed + 1
    /\ UNCHANGED <<alertVars, pc, is_running, warmup_complete, orderbooks>>

NextCandle ==
    \/ Warmup
    \/ OnCandleEarly
    \/ OnCandle
    \/ OnTrade

SpecCandle == InitAnalyzers /\ [][NextCandle]_vars

(***************************************************************************)
(* The threads of a TradingSystem on the OrderFlowAnalyzer of one symbol:   *)
(* the main thread (start, the warm-up replay, going live), the feed's      *)
(* WebSocket thread (the trade, order book and candle callbacks) and the    *)
(* OI polling thread.  No operation holds a lock, so a thread may be       *)
(* preempted inside one: every operation is taken in two steps, its entry  *)
(* (with the statements before its last assignments) and its end.  The     *)
(* TPO and VWAP updates of a candle leave the OrderFlowAnalyzer alone and  *)
(* are followed in SpecCandle.                                             *)
(***************************************************************************)
\* the bars closed by the warm-up and by live candles together
MaxThreadBars == 2

Goto(thread, step, arg) == pc' = [pc EXCEPT ![thread] = At(step, arg)]

\* start: the feeds are started (the WebSocket thread runs), the OI
\* polling thread is started, and the main thread enters _warmup
Start ==
    /\ pc.main.step = "start"
    /\ pc' = [oi |-> At("check", None),
              main |-> At("warmup", None),
              ws |-> At("idle", None)]
    /\ UNCHANGED <<alertVars, engineVars, analyzerVars, flowVars, is_running,
                   warmup_complete, candle_call, orderbooks>>

\* _warmup, a historical kline: finalize_bar is entered and records the bar
WarmupRecordBar ==
    /\ pc.main.step = "warmup"
    /\ fed < MaxThreadBars
    /\ \E price \in BarPrices :
          orderflow' = record_bar(orderflow, price).analyzer
    /\ Goto("main", "finalize_bar", None)
    /\ UNCHANGED <<alertVars, engineVars, analyzerVars, of_call, finalized, delivered,
                   is_running, warmup_complete, candle_call, orderbooks>>

\* _warmup: finalize_bar resets the current bar and returns
WarmupResetBar ==
    /\ pc.main.step = "finalize_bar"
    /\ orderflow' = reset_current_bar(orderflow)
    /\ fed' = fed + 1
    /\ Goto("main", "warmup", None)
    /\ UNCHANGED <<alertVars, engineVars, tpo, tpo_call, vwap_calc, vwap_call, candles,
                   of_call, finalized, delivered, is_running, warmup_complete,
                   candle_call, orderbooks>>

\* _warmup: the klines are through, warmup_complete = True
WarmupComplete ==
    /\ pc.main.step = "warmup"
    /\ warmup_complete' = TRUE
    /\ Goto("main", "warmed", None)
    /\ UNCHANGED <<alertVars, engineVars, analyzerVars, flowVars, is_running,
                   candle_call, orderbooks>>

\* start: is_running = True, and the main thread sleeps
GoLive ==
    /\ pc.main.step = "warmed"
    /\ is_running' = TRUE
    /\ Goto("main", "running", None)
    /\ UNCHANGED <<alertVars, engineVars, analyzerVars, flowVars, warmup_complete,
                   candle_call, orderbooks>>

\* _on_trade: update_from_trades([trade]) is entered
OnTradeBegin ==
    /\ pc.ws.step = "idle"
    /\ \E trade \in Trades : Goto("ws", "update_from_trades", Some(trade))
    /\ UNCHANGED <<alertVars, engineVars, analyzerVars, flowVars, is_running,
                   warmup_complete, candle_call, orderbooks>>

\* _on_trade: update_from_trades assigns the bar's volumes and delta
OnTradeEnd ==
    /\ pc.ws.step = "update_from_trades"
    /\ orderflow' = update_from_trades(orderflow, <<Val(pc.ws.arg)>>)
    /\ Goto("ws", "idle", None)
    /\ UNCHANGED <<alertVars, engineVars, analyzerVars, of_call, finalized, delivered,
                   is_running, warmup_complete, candle_call, orderbooks>>

\* _on_orderbook: update_from_orderbook is entered
OnOrderbookBegin ==
    /\ pc.ws.step = "idle"
    /\ \E orderbook \in TickerBooks :
          Goto("ws", "update_from_orderbook", Some(orderbook))
    /\ UNCHANGED <<alertVars, engineVars, analyzerVars, flowVars, is_running,
                   warmup_complete, candle_call, orderbooks>>

\* _on_orderbook: update_from_orderbook assigns the ratio
OnOrderbookEnd ==
    /\ pc.ws.step = "update_from_orderbook"
    /\ orderflow' = update_from_orderbook(orderflow, Val(pc.ws.arg))
    /\ Goto("ws", "idle", None)
    /\ UNCHANGED <<alertVars, engineVars, analyzerVars, of_call, finalized, delivered,
                   is_running, warmup_complete, candle_call, orderbooks>>

\* _on_candle after the warm-up: finalize_bar is entered and records the bar
OnCandleRecordBar ==
    /\ pc.ws.step = "idle"
    /\ warmup_complete
    /\ fed < MaxThreadBars
    /\ \E price \in BarPrices :
          orderflow' = record_bar(orderflow, price).analyzer
    /\ Goto("ws", "finalize_bar", None)
    /\ UNCHANGED <<alertVars, engineVars, analyzerVars, of_call, finalized, delivered,
                   is_running, warmup_complete, candle_call, orderbooks>>

\* _on_candle: finalize_bar resets the current bar and returns
OnCandleResetBar ==
    /\ pc.ws.step = "finalize_bar"
    /\ orderflow' = reset_current_bar(orderflow)
    /\ fed' = fed + 1
    /\ Goto("ws", "get_metrics", None)
    /\ UNCHANGED <<alertVars, engineVars, tpo, tpo_call, vwap_calc, vwap_call, candles,
                   of_call, finalized, delivered, is_running, warmup_complete,
                   candle_call, orderbooks>>

\* _on_candle: get_metrics
OnCandleMetrics ==
    /\ pc.ws.step = "get_metrics"
    /\ of_call' = OfCall("get_metrics", FALSE, Some(get_metrics(orderflow, 0)))
    /\ Goto("ws", "idle", None)
    /\ UNCHANGED <<alertVars, engineVars, analyzerVars, orderflow, finalized, delivered,
                   is_running, warmup_complete, candle_call, orderbooks>>

\* poll_oi: while self.is_running
PollCheck ==
    /\ pc.oi.step = "check"
    /\ Goto("oi", IF is_running THEN "fetch" ELSE "exited", None)
    /\ UNCHANGED <<alertVars, engineVars, analyzerVars, flowVars, is_running,
                   warmup_complete, candle_call, orderbooks>>

\* poll_oi: update_oi is entered with the open interest fetched, and
\* previous_oi takes current_oi
PollBegin ==
    /\ pc.oi.step = "fetch"
    /\ orderflow' = [orderflow EXCEPT !.previous_oi = orderflow.current_oi]
    /\ \E new_oi \in OpenInterests : Goto("oi", "update_oi", Some(new_oi))
    /\ UNCHANGED <<alertVars, engineVars, analyzerVars, of_call, finalized, delivered,
                   is_running, warmup_complete, candle_call, orderbooks>>

\* poll_oi: update_oi assigns current_oi; the thread sleeps
PollEnd ==
    /\ pc.oi.step = "update_oi"
    /\ orderflow' = [orderflow EXCEPT !.current_oi = Val(pc.oi.arg)]
    /\ Goto("oi", "check", None)
    /\ UNCHANGED <<alertVars, engineVars, analyzerVars, of_call, finalized, delivered,
                   is_running, warmup_complete, candle_call, orderbooks>>

NextThreads ==
    \/ Start
    \/ WarmupRecordBar
    \/ WarmupResetBar
    \/ WarmupComplete
    \/ GoLive
    \/ OnTradeBegin
    \/ OnTradeEnd
    \/ OnOrderbookBegin
    \/ OnOrderbookEnd
    \/ OnCandleRecordBar
    \/ OnCandleResetBar
    \/ OnCandleMetrics
    \/ PollCheck
    \/ PollBegin
    \/ PollEnd

SpecThreads == InitAnalyzers /\ [][NextThreads]_vars

(***************************************************************************)
(* An OrderFlowAnalyzer through more bars than its histories hold: every   *)
(* bar brings one delivery of trades and closes at one price, and the      *)
(* deliveries repeat from bar to bar until a reset.                        *)
(***************************************************************************)
MaxLongBars == 102

\* the deliveries of a bar: a list of TradeLists or a single trade
Deliveries == TradeLists \cup {<<trade>> : trade \in Trades}

\* buy minus sell quantity of a list of trades
DeltaOf(trades) == SideVolume(trades, TRUE) - SideVolume(trades, FALSE)

\* update_from_trades with the bar's trades, the same as the bar before
RepeatTrades ==
    /\ fed < MaxLongBars
    /\ delivered.trades = 0
    /\ \E trades \in Deliveries :
          /\ finalized # <<>> => DeltaOf(trades) = finalized[Len(finalized)]
          /\ orderflow' = update_from_trades(orderflow, trades)
          /\ of_call' = OfCall("update_from_trades", FALSE, None)
          /\ delivered' = Delivered(trades)
    /\ UNCHANGED <<alertVars, engineVars, analyzerVars, finalized, systemVars>>

\* finalize_bar once the bar's trades are in
RepeatBar ==
    /\ fed < MaxLongBars
    /\ delivered.trades = 1
    /\ CloseBar(1000)
    /\ UNCHANGED <<alertVars, engineVars, tpo, tpo_call, vwap_calc, vwap_call, candles,
                   systemVars>>

NextOrderFlowLong ==
    \/ RepeatTrades
    \/ RepeatBar
    \/ Reset

SpecOrderFlowLong == InitAnalyzers /\ [][NextOrderFlowLong]_vars

(***************************************************************************)
(* Properties of SignalEngine                                              *)
(***************************************************************************)
\* the signal the last call returned and its type ("None" when it returned
\* nothing)
Returned == Val(Val(call).signal)
ReturnedType ==
    IF call = None \/ Val(call).signal = None THEN "None" ELSE Returned.signal_type

\* C1: on one engine, any two emitted signals of the same signal type have
\* timestamps at least cooldown_seconds apart
C1_CooldownSpacing ==
    \A e1 \in emitted : \A e2 \in emitted :
        (e1 # e2 /\ e1[1] = e2[1])
            => Abs(e1[2] - e2[2]) >= cooldown_seconds * 1000

\* two signals of one type were emitted exactly cooldown_seconds apart
C1_Witness ==
    \E e1 \in emitted : \E e2 \in emitted :
        /\ e1[1] = e2[1]
        /\ e2[2] - e1[2] = cooldown_seconds * 1000

\* the min_confidence configured for the rule set of a signal type
MinConfidenceOf(type) ==
    IF type = "LONG_ENTRY" THEN long_config.min_confidence
    ELSE IF type = "SHORT_ENTRY" THEN short_config.min_confidence
    ELSE failure_config.min_confidence

\* C2: every returned SignalEvent has a confidence in [0, 1] (0..100
\* hundredths) and a confidence before the clamp of at least the
\* min_confidence of its rule set
C2_ConfidenceRange ==
    ReturnedType # "None" =>
        /\ Returned.confidence >= 0
        /\ Returned.confidence <= 100
        /\ Returned.raw_confidence >= MinConfidenceOf(ReturnedType)

\* a short entry whose weights add up to more than 1.0 was returned with
\* confidence 1.0
C2_Witness ==
    /\ ReturnedType = "SHORT_ENTRY"
    /\ Returned.raw_confidence > 100
    /\ Returned.confidence = 100

\* C3: a call returns at most one signal; a LONG_ENTRY only if the failure
\* rule produced none, a SHORT_ENTRY only if neither the failure rule nor the
\* long rule produced one, and the failure signal whenever the failure rule
\* produced one
C3_Priority ==
    call # None =>
        /\ Cardinality(Val(call).signal) <= 1
        /\ ReturnedType = "LONG_ENTRY" => Val(call).failure = None
        /\ ReturnedType = "SHORT_ENTRY" =>
              Val(call).failure = None /\ Val(call).long = None
        /\ Val(call).failure # None => Val(call).signal = Val(call).failure

\* the failure rule and the long rule both matched and the failure signal
\* was the one returned
C3_Witness ==
    /\ call # None
    /\ Val(call).failure # None
    /\ Val(call).long # None
    /\ ReturnedType \in {"LONG_FAILURE", "SHORT_FAILURE"}

\* the number of the four long (bullish) order-flow conditions the call's
\* order-flow snapshot satisfies
BullishCount ==
    LET o == Val(Val(call).orderflow_data)
    IN  (IF o.delta > 0 THEN 1 ELSE 0)
        + (IF o.delta_trend = "BULLISH" THEN 1 ELSE 0)
        + (IF o.oi_change_percent > 0 THEN 1 ELSE 0)
        + (IF o.consecutive_buy_bars >= 2 THEN 1 ELSE 0)

BearishCount ==
    LET o == Val(Val(call).orderflow_data)
    IN  (IF o.delta < 0 THEN 1 ELSE 0)
        + (IF o.delta_trend = "BEARISH" THEN 1 ELSE 0)
        + (IF o.oi_change_percent > 0 THEN 1 ELSE 0)
        + (IF o.consecutive_sell_bars >= 2 THEN 1 ELSE 0)

\* the call's price is within tol thousandths of the call's VWAP
WithinOfVwap(tol) ==
    LET c == Val(call)
        v == Val(c.vwap_data)
    IN  Abs(c.current_price - v.vwap) * 1000 < tol * v.vwap

\* C4: every returned LONG_ENTRY was called with event VAL_BOUNCE,
\* POC_RECLAIM or VAH_BREAKOUT, a price >= VWAP or within the long pullback
\* tolerance of VWAP, and all four bullish order-flow conditions when
\* require_all_orderflow is set, at least three otherwise
C4_LongEntryConditions ==
    ReturnedType = "LONG_ENTRY" =>
        /\ Val(call).tpo_event \in {"VAL_BOUNCE", "POC_RECLAIM", "VAH_BREAKOUT"}
        /\ \/ Val(call).current_price >= Val(Val(call).vwap_data).vwap
           \/ WithinOfVwap(long_config.vwap_pullback_tolerance)
        /\ IF long_config.require_all_orderflow
           THEN BullishCount = 4 ELSE BullishCount >= 3

\* a long entry returned below VWAP, inside the pullback tolerance, on three
\* of the four order-flow conditions
C4_Witness ==
    /\ ReturnedType = "LONG_ENTRY"
    /\ Val(call).current_price < Val(Val(call).vwap_data).vwap
    /\ BullishCount = 3

\* C5: every returned SHORT_ENTRY was called with event VAH_REJECTION,
\* POC_BREAKDOWN or VAL_BREAK, a price <= VWAP or within the short rejection
\* tolerance of VWAP with delta < 0, and all four bearish order-flow
\* conditions when require_all_orderflow is set, at least three otherwise
C5_ShortEntryConditions ==
    ReturnedType = "SHORT_ENTRY" =>
        /\ Val(call).tpo_event \in {"VAH_REJECTION", "POC_BREAKDOWN", "VAL_BREAK"}
        /\ \/ Val(call).current_price <= Val(Val(call).vwap_data).vwap
           \/ /\ WithinOfVwap(short_config.vwap_rejection_tolerance)
              /\ Val(Val(call).orderflow_data).delta < 0
        /\ IF short_config.require_all_orderflow
           THEN BearishCount = 4 ELSE BearishCount >= 3

\* a short entry returned above VWAP, inside the rejection tolerance, on
\* three of the four order-flow conditions
C5_Witness ==
    /\ ReturnedType = "SHORT_ENTRY"
    /\ Val(call).current_price > Val(Val(call).vwap_data).vwap
    /\ BearishCount = 3

\* the weighted sum of C6 for the last call: 0.25 (TPO), 0.15 (price >=
\* VWAP), 0.25 (pullback zone), 0.10 (slope > 0) and 0.10/0.10/0.05/0.10 for
\* the four order-flow conditions, all of them satisfied
BreakoutSum ==
    25 + 15
    + (IF WithinOfVwap(long_config.vwap_pullback_tolerance) THEN 25 ELSE 0)
    + (IF Val(Val(call).vwap_data).slope > 0 THEN 10 ELSE 0)
    + 10 + 10 + 5 + 10

\* the scenario of C6: a call outside the long cooldown with VAH_BREAKOUT,
\* the price above VWAP, the four bullish order-flow conditions and a sum
\* that reaches the long minimum
BreakoutCall ==
    /\ call # None
    /\ ~Val(call).cooldown.long
    /\ Val(call).tpo_event = "VAH_BREAKOUT"
    /\ Val(call).vwap_data # None
    /\ Val(call).orderflow_data # None
    /\ Val(call).current_price > Val(Val(call).vwap_data).vwap
    /\ BullishCount = 4
    /\ BreakoutSum >= long_config.min_confidence

Profiles == tpo.current_profile \cup tpo.previous_profile

\* the price levels of a profile and the volume at one of them
Levels(profile) == {profile.price_levels[i].price : i \in DOMAIN profile.price_levels}
LevelVolume(profile, price) ==
    LET i == CHOOSE i \in DOMAIN profile.price_levels :
                 profile.price_levels[i].price = price
    IN  profile.price_levels[i].volume

\* C7: after every update, the current profile's value_area_volume is at
\* least value_area_percent / 100 of its total_volume, or its value area
\* [VAL, VAH] reaches from the lowest to the highest price level
C7_ValueAreaVolume ==
    \A profile \in tpo.current_profile :
        \/ profile.value_area_volume * 100
               >= TPOConfig.value_area_percent * profile.total_volume
        \/ /\ \A price \in Levels(profile) : profile.val <= price
           /\ \A price \in Levels(profile) : price <= profile.vah

\* an update left a profile whose value area grew beyond the POC, reached
\* the target and stops short of the highest or lowest level
C7_Witness ==
    /\ tpo_call # None
    /\ ~Val(tpo_call).raised
    /\ \E profile \in tpo.current_profile :
          /\ profile.val < profile.vah
          /\ profile.value_area_volume < profile.total_volume
          /\ LevelVolume(profile, profile.poc) * 100
                 < TPOConfig.value_area_percent * profile.total_volume
          /\ profile.value_area_volume * 100
                 >= TPOConfig.value_area_percent * profile.total_volume

\* C8: the current and the previous profile satisfy VAL <= POC <= VAH, and
\* VAL, POC and VAH are price levels of the profile's own price_levels
C8_ProfileLevels ==
    \A profile \in Profiles :
        /\ profile.val <= profile.poc
        /\ profile.poc <= profile.vah
        /\ {profile.val, profile.poc, profile.vah} \subseteq Levels(profile)

\* a second session is running: the analyzer holds a previous profile and a
\* different current one whose value area lies on both sides of the lower
\* levels (VAL below POC)
C8_Witness ==
    /\ tpo.previous_profile # None
    /\ tpo.current_profile # None
    /\ tpo.current_profile # tpo.previous_profile
    /\ Val(tpo.current_profile).val < Val(tpo.current_profile).poc

\* the POC of a profile has the greatest volume of its price levels
POCIsMaximal(profile) ==
    \A price \in Levels(profile) :
        LevelVolume(profile, price) <= LevelVolume(profile, profile.poc)

\* C9 as stated: after every update the POC has the greatest accumulated
\* volume, and is the lowest of the prices that share it
C9_AsStated ==
    \A profile \in tpo.current_profile :
        /\ POCIsMaximal(profile)
        /\ \A price \in Levels(profile) :
               LevelVolume(profile, price) = LevelVolume(profile, profile.poc)
                   => profile.poc <= price

\* C9, amended: after every update the POC has the greatest accumulated
\* volume, and of the prices that share it the POC is the one that entered
\* the session's distribution first
C9_POCFirstMaximum ==
    \A profile \in tpo.current_profile :
        /\ POCIsMaximal(profile)
        /\ \A i \in DOMAIN profile.price_levels :
           \A j \in DOMAIN profile.price_levels :
               (/\ profile.price_levels[j].price = profile.poc
                /\ profile.price_levels[i].volume = profile.price_levels[j].volume)
                   => j <= i

\* an update left a POC that shares the greatest volume with a lower price
\* which entered the distribution after it
C9_Witness ==
    /\ tpo_call # None
    /\ ~Val(tpo_call).raised
    /\ \E profile \in tpo.current_profile :
       \E price \in Levels(profile) :
          /\ price < profile.poc
          /\ LevelVolume(profile, price) = LevelVolume(profile, profile.poc)

(***************************************************************************)
(* Properties of VWAPCalculator                                            *)
(***************************************************************************)
\* the candles fed so far that fall in the session of the last one
SessionCandles ==
    LET last == candles[Len(candles)]
    IN  SelectSeq(candles,
                  LAMBDA k : get_session_start(k.timestamp, VWAPConfig.session_reset)
                             = get_session_start(last.timestamp, VWAPConfig.session_reset))

\* the sums of volume, of 3 * typical_price * volume and of
\* 9 * typical_price ** 2 * volume over a sequence of candles
RECURSIVE SumVolume(_)
SumVolume(cs) ==
    IF cs = <<>> THEN 0 ELSE Head(cs).volume + SumVolume(Tail(cs))

RECURSIVE SumPV(_)
SumPV(cs) ==
    IF cs = <<>> THEN 0
    ELSE (Head(cs).high + Head(cs).low + Head(cs).close) * Head(cs).volume
         + SumPV(Tail(cs))

RECURSIVE SumPV2(_)
SumPV2(cs) ==
    IF cs = <<>> THEN 0
    ELSE (Head(cs).high + Head(cs).low + Head(cs).close)
         * (Head(cs).high + Head(cs).low + Head(cs).close) * Head(cs).volume
         + SumPV2(Tail(cs))

\* C10: the VWAP an update returns is the sum of typical_price * volume over
\* the sum of volume, both over exactly the candles of the last candle's
\* session (the last candle's typical price when that volume is 0), and the
\* three cumulative sums hold the sums over those candles alone
C10_SessionVWAP ==
    (vwap_call # None /\ Val(vwap_call).result # None) =>
        LET data == Val(Val(vwap_call).result)
            last == Val(vwap_call).candle
        IN  /\ IF SumVolume(SessionCandles) = 0
               THEN data.vwap.num * 3
                    = data.vwap.den * (last.high + last.low + last.close)
               ELSE data.vwap.num * 3 * SumVolume(SessionCandles)
                    = data.vwap.den * SumPV(SessionCandles)
            /\ vwap_calc.cumulative_volume = SumVolume(SessionCandles)
            /\ vwap_calc.cumulative_pv = SumPV(SessionCandles)
            /\ vwap_calc.cumulative_pv2 = SumPV2(SessionCandles)

\* an update of the second session returned a VWAP over two candles with
\* volume, after a first session that had volume too
C10_Witness ==
    /\ vwap_call # None
    /\ Val(vwap_call).result # None
    /\ Len(SessionCandles) >= 2
    /\ SumVolume(SessionCandles) >= 2
    /\ Len(SessionCandles) < Len(candles)
    /\ SumVolume(candles) > SumVolume(SessionCandles)
    /\ \E k \in DOMAIN candles :
          /\ candles[k].volume > 0
          /\ get_session_start(candles[k].timestamp, VWAPConfig.session_reset)
                \notin {None, get_session_start(candles[Len(candles)].timestamp,
                                                VWAPConfig.session_reset)}

(***************************************************************************)
(* C11: the bands around the VWAP                                          *)
(***************************************************************************)
\* C11: every VWAPData an update returns has
\* lower_2std <= lower_1std <= vwap <= upper_1std <= upper_2std, each upper
\* band as far above the VWAP as the lower one is below it, and the 2-sigma
\* bands twice as far from the VWAP as the 1-sigma bands, also when the
\* variance came out negative
C11_BandOrder ==
    (vwap_call # None /\ Val(vwap_call).result # None) =>
        LET data == Val(Val(vwap_call).result)
        IN  /\ RatLeq(data.lower_2std, data.lower_1std)
            /\ RatLeq(data.lower_1std, data.vwap)
            /\ RatLeq(data.vwap, data.upper_1std)
            /\ RatLeq(data.upper_1std, data.upper_2std)
            /\ RatSub(data.upper_1std, data.vwap)
                   = RatSub(data.vwap, data.lower_1std)
            /\ RatSub(data.upper_2std, data.vwap)
                   = RatSub(data.vwap, data.lower_2std)
            /\ RatSub(data.upper_2std, data.vwap)
                   = RatScale(2, RatSub(data.upper_1std, data.vwap))

\* an update returned bands computed from a negative variance, after an
\* earlier update of the same session had returned bands away from the VWAP
C11_Witness ==
    /\ vwap_call # None
    /\ Val(vwap_call).result # None
    /\ Val(vwap_call).negative_variance
    /\ Val(Val(vwap_call).result).upper_1std = Val(Val(vwap_call).result).vwap
    /\ Len(SessionCandles) >= 2

(***************************************************************************)
(* Properties of OrderFlowAnalyzer                                         *)
(***************************************************************************)
\* C12: after any sequence of update_from_trades, finalize_bar and reset
\* calls, cumulative_delta is the sum of the per-bar deltas finalized since
\* the last reset (0 right after a reset), also past 100 bars
C12_CumulativeDelta ==
    /\ orderflow.cumulative_delta = SumSeq(finalized)
    /\ (of_call # None /\ Val(of_call).op = "reset")
           => orderflow.cumulative_delta = 0

\* more bars than delta_history holds were finalized since a reset that
\* followed earlier bars, and their deltas add up to a cumulative delta
\* other than 0 and other than the sum of the history kept
C12_Witness ==
    /\ Len(finalized) > HistoryMaxLen
    /\ fed > Len(finalized)
    /\ orderflow.cumulative_delta # 0
    /\ orderflow.cumulative_delta # SumSeq(orderflow.delta_history)

\* the last operation on the OrderFlowAnalyzer was op, and it returned
Did(op) ==
    /\ of_call # None
    /\ Val(of_call).op = op
    /\ ~Val(of_call).raised

\* the two deltas finalized last have strictly opposite sign
OppositeSigns ==
    /\ Len(finalized) >= 2
    /\ \/ finalized[Len(finalized) - 1] > 0 /\ finalized[Len(finalized)] < 0
       \/ finalized[Len(finalized) - 1] < 0 /\ finalized[Len(finalized)] > 0

\* C13: check_delta_flip returns true exactly when two bars or more were
\* finalized since the last reset and the deltas of the last two have
\* strictly opposite sign
C13_DeltaFlip ==
    Did("check_delta_flip") => (Val(Val(of_call).result) <=> OppositeSigns)

\* check_delta_flip returned true
C13_Witness ==
    /\ Did("check_delta_flip")
    /\ Val(Val(of_call).result)
    /\ OppositeSigns

\* C14 as stated: the delta finalize_bar records is the buy quantity minus
\* the sell quantity of all the trades delivered since the finalize_bar
\* before, whether they came in one list or one at a time
C14_AsStated ==
    Did("finalize_bar") =>
        LET bar == Val(Val(of_call).result)
        IN  bar.delta = bar.delivered.buy - bar.delivered.sell

\* C15 as stated: every snapshot get_metrics returns has
\* delta = buy_volume - sell_volume and
\* total_volume = buy_volume + sell_volume
C15_AsStated ==
    Did("get_metrics") =>
        LET metrics == Val(Val(of_call).result)
        IN  /\ metrics.delta = metrics.buy_volume - metrics.sell_volume
            /\ metrics.total_volume = metrics.buy_volume + metrics.sell_volume

\* the bar closed last had strictly more volume than the multiplier times
\* the average of the volume window
VolumeAbove ==
    orderflow.volume_history[Len(orderflow.volume_history)]
        * Len(orderflow.volume_history) * 10
      > SumSeq(orderflow.volume_history)
        * OrderFlowConfig.absorption.volume_multiplier

\* C17 as stated: after finalize_bar absorption_detected is true only when
\* the volume window is full, the bar's volume is strictly greater than the
\* window's average times the multiplier, and the price moved by no more
\* than the tolerance since the bar before
C17_AsStated ==
    (Did("finalize_bar") /\ orderflow.absorption_detected) =>
        /\ Len(orderflow.volume_history)
               = OrderFlowConfig.absorption.lookback_bars
        /\ VolumeAbove
        /\ Len(orderflow.price_history) >= 2
        /\ PriceHeld(orderflow.price_history[Len(orderflow.price_history)],
                     orderflow.price_history[Len(orderflow.price_history) - 1])

\* the ratio of a snapshot as stated: |ask - bid| / (ask + bid) over the
\* five best levels of each side, 0 when they hold nothing
RatioOf(orderbook) ==
    LET bid == TopVolume(orderbook.bids, 5)
        ask == TopVolume(orderbook.asks, 5)
    IN  IF bid + ask = 0 THEN Rat(0, 1)
        ELSE Rat(IF ask >= bid THEN ask - bid ELSE bid - ask, bid + ask)

\* the last order book of a history that has a level on both sides
RECURSIVE LastComplete(_)
LastComplete(books) ==
    IF books = <<>> THEN None
    ELSE IF books[Len(books)].bids # <<>> /\ books[Len(books)].asks # <<>>
    THEN Some(books[Len(books)])
    ELSE LastComplete(SubSeq(books, 1, Len(books) - 1))

InUnitInterval(r) == RatLeq(Rat(0, 1), r) /\ RatLeq(r, Rat(1, 1))

\* C16 as stated: after any sequence of update_from_orderbook calls the
\* imbalance ratio is in [0, 1] and is the ratio of the most recent
\* snapshot, whatever that snapshot holds
C16_AsStated ==
    orderbooks # <<>> =>
        /\ InUnitInterval(orderflow.current_imbalance_ratio)
        /\ orderflow.current_imbalance_ratio
               = RatioOf(orderbooks[Len(orderbooks)])

\* C16: after any sequence of update_from_orderbook calls with non-negative
\* quantities the imbalance ratio, in the analyzer and in a get_metrics
\* snapshot, is in [0, 1] and is |ask - bid| / (ask + bid) over the five
\* best levels of the most recent snapshot that has a bid and an ask level
\* (0 when they sum to 0, and before any such snapshot); a snapshot with a
\* side missing leaves the ratio as it was
C16_ImbalanceRatio ==
    LET complete == LastComplete(orderbooks)
        expected == IF complete = None THEN Rat(0, 1) ELSE RatioOf(Val(complete))
    IN  /\ InUnitInterval(orderflow.current_imbalance_ratio)
        /\ orderflow.current_imbalance_ratio = expected
        /\ Did("get_metrics") =>
               Val(Val(of_call).result).imbalance_ratio = expected

\* get_metrics after a snapshot without asks that followed a snapshot of
\* six bid levels and one ask level: the ratio is that of five bid levels
\* against the ask
C16_Witness ==
    /\ Did("get_metrics")
    /\ Len(orderbooks) = 2
    /\ Len(orderbooks[1].bids) = 6
    /\ orderbooks[1].asks = <<100>>
    /\ orderbooks[2].asks = <<>>
    /\ orderbooks[2].bids = <<100>>
    /\ Val(Val(of_call).result).imbalance_ratio = Rat(2, 3)

\* C18 as stated: with a reference value of 0 (VWAP, previous open
\* interest, order book total, previous closing price) none of
\* VWAPCalculator.update, check_signals, get_metrics, update_from_orderbook
\* and finalize_bar raises, and the percentage or ratio comes out as 0
C18_AsStated ==
    /\ vwap_call # None => ~Val(vwap_call).raised
    /\ call # None => ~Val(call).raised
    /\ of_call # None => ~Val(of_call).raised
    /\ (Did("get_metrics") /\ orderflow.previous_oi = 0)
           => Val(Val(of_call).result).oi_change_percent = Rat(0, 1)
    /\ Did("update_from_orderbook") => orderflow.current_imbalance_ratio = Rat(0, 1)

\* the guarded divisions alone: get_metrics with a previous open interest
\* of 0 and update_from_orderbook with a book without quantity
C18_Guarded ==
    /\ (Did("get_metrics") /\ orderflow.previous_oi = 0)
           => Val(Val(of_call).result).oi_change_percent = Rat(0, 1)
    /\ Did("update_from_orderbook") => orderflow.current_imbalance_ratio = Rat(0, 1)

\* the calls that raise: finalize_bar, VWAPCalculator.update, check_signals
C18_FinalizeRaises ==
    /\ of_call # None
    /\ Val(of_call).op = "finalize_bar"
    /\ Val(of_call).raised
C18_UpdateRaises == vwap_call # None /\ Val(vwap_call).raised
C18_RejectionRaises ==
    /\ vwap_call # None
    /\ Val(vwap_call).raised
    /\ Val(vwap_calc.current_vwap).vwap.num # 0
C18_CheckRaises == call # None /\ Val(call).raised

(***************************************************************************)
(* Properties of TradingSystem                                             *)
(***************************************************************************)
\* the steps at which a thread is inside an operation on the analyzers
InsideOperation ==
    {"finalize_bar", "update_from_trades", "update_from_orderbook",
     "update_oi", "get_metrics"}
Inside == {thread \in DOMAIN pc : pc[thread].step \in InsideOperation}

\* C19 as stated: the operations on the analyzers of a symbol never
\* overlap: at most one of the three threads is inside one at any time
C19_AsStated == Cardinality(Inside) <= 1

\* what the one thread does not overlap with: the trade, order book and
\* candle callbacks all run on the WebSocket thread
C19_OneFeedThread ==
    pc.ws.step \in {"off", "idle"} \cup InsideOperation

\* a trade is delivered while the warm-up is inside finalize_bar; the
\* WebSocket thread is inside get_metrics while the OI thread is inside
\* update_oi
C19_TradeDuringWarmup ==
    pc.main.step = "finalize_bar" /\ pc.ws.step = "update_from_trades"
C19_MetricsDuringPoll ==
    pc.ws.step = "get_metrics" /\ pc.oi.step = "update_oi"

\* C20 as stated: for every closed candle handled after the warm-up the
\* handler has applied TPOAnalyzer.update, VWAPCalculator.update,
\* OrderFlowAnalyzer.finalize_bar and SignalEngine.check_signals, in that
\* order, and check_signals was given what the three updates produced
C20_AsStated ==
    (candle_call # None /\ Val(candle_call).after_warmup) =>
        /\ Val(candle_call).applied =
               <<"TPOAnalyzer.update", "VWAPCalculator.update",
                 "OrderFlowAnalyzer.finalize_bar", "SignalEngine.check_signals">>
        /\ call # None
        /\ Val(call).current_time = Val(candle_call).candle.timestamp * MsPerMinute

\* when none of the updates raises, check_signals is called last and with
\* the event, the profile, the VWAP data and the metrics the analyzers
\* hold after that candle's updates
C20_WhenNothingRaises ==
    (candle_call # None /\ Val(candle_call).after_warmup
         /\ ~Val(candle_call).raised) =>
        /\ Val(candle_call).applied =
               <<"TPOAnalyzer.update", "VWAPCalculator.update",
                 "OrderFlowAnalyzer.finalize_bar", "SignalEngine.check_signals">>
        /\ call # None
        /\ Val(call).current_time = Val(candle_call).candle.timestamp * MsPerMinute
        /\ Val(call).current_price = Val(candle_call).candle.close * PriceScale
        /\ Val(call).tpo_event = Val(tpo_call).event
        /\ Val(call).tpo_data = EngineProfile(tpo.current_profile)
        /\ Val(call).vwap_data = EngineVWAP(vwap_calc.current_vwap)
        /\ Val(Val(call).orderflow_data).delta = finalized[Len(finalized)]
        /\ Did("get_metrics") =>
               Val(call).orderflow_data
                   = EngineMetrics(get_metrics(orderflow,
                                               Val(candle_call).candle.timestamp))

\* the hand-over to the SignalEngine loses nothing: every fraction is a
\* whole number of 1/PriceScale
C20_ScaleExact ==
    vwap_calc.current_vwap # None =>
        \A r \in {Val(vwap_calc.current_vwap).vwap,
                  Val(vwap_calc.current_vwap).upper_1std,
                  Val(vwap_calc.current_vwap).lower_1std} :
            PriceScale % r.den = 0

\* a candle at 00:30 on the first of the month after the warm-up: the TPO
\* update raises and nothing else is applied; a candle through all four
C20_StoppedAtTPO ==
    /\ candle_call # None
    /\ Val(candle_call).after_warmup
    /\ Val(candle_call).raised
    /\ Val(candle_call).applied = <<>>
    /\ Val(candle_call).candle.timestamp = 30
C20_AllFour ==
    /\ candle_call # None
    /\ Len(Val(candle_call).applied) = 4
    /\ Val(call).signal # None

\* a candle at a price of 0 as the first of a session: the VWAP update
\* raises after the TPO update, and finalize_bar and check_signals are
\* left out
C20_StoppedAtVWAP ==
    /\ candle_call # None
    /\ Val(candle_call).raised
    /\ Val(candle_call).applied = <<"TPOAnalyzer.update">>

\* finalize_bar raises on the bar after a bar closed at 0: get_metrics and
\* check_signals are left out
C20_StoppedAtFinalize ==
    /\ candle_call # None
    /\ Val(candle_call).raised
    /\ Len(Val(candle_call).applied) = 2

\* the three cooldown timers
Timers ==
    <<last_long_signal_time, last_short_signal_time, last_failure_signal_time>>

\* C21: a check_signals call that emits a signal sets the timer of that
\* signal's category (long, short, or the failure timer shared by
\* LONG_FAILURE and SHORT_FAILURE) to the call's timestamp and leaves the
\* other two timers as they were; a call that returns no signal leaves all
\* three as they were
C21_TimerFrame ==
    [][LET type == IF Val(call').signal = None THEN "None"
                   ELSE Val(Val(call').signal).signal_type
           now == Some(Val(call').current_time)
       IN  /\ type = "LONG_ENTRY" =>
                 Timers' = <<now, last_short_signal_time, last_failure_signal_time>>
           /\ type = "SHORT_ENTRY" =>
                 Timers' = <<last_long_signal_time, now, last_failure_signal_time>>
           /\ type \in {"LONG_FAILURE", "SHORT_FAILURE"} =>
                 Timers' = <<last_long_signal_time, last_short_signal_time, now>>
           /\ type = "None" => Timers' = Timers]_vars

\* a short entry emitted after a long entry and a failure signal: the
\* short timer is the call's time, the other two are the earlier ones
C21_Witness ==
    /\ call # None
    /\ ReturnedType = "SHORT_ENTRY"
    /\ last_short_signal_time = Some(Val(call).current_time)
    /\ last_long_signal_time # None
    /\ last_failure_signal_time # None
    /\ Val(last_long_signal_time) # Val(call).current_time
    /\ Val(last_failure_signal_time) # Val(call).current_time
    /\ Val(last_long_signal_time) # Val(last_failure_signal_time)

\* a call outside every cooldown, with its three snapshots, that returned
\* nothing, after signals of two categories
C21_QuietWitness ==
    /\ call # None
    /\ ReturnedType = "None"
    /\ ~Val(call).raised
    /\ Val(call).tpo_data # None
    /\ Val(call).vwap_data # None
    /\ ~Val(call).cooldown.long
    /\ ~Val(call).cooldown.short
    /\ ~Val(call).cooldown.failure
    /\ last_short_signal_time # None
    /\ last_failure_signal_time # None

(***************************************************************************)
(* Failure signals                                                         *)
(***************************************************************************)
\* C22: every emitted SHORT_FAILURE has its price within 0.2% of VAH or of
\* the VWAP upper 1-sigma band and at or above 99.8% of the tracked recent
\* high, and 0.2 + 0.3 [delta < 0] + 0.2 [trend not BULLISH] + 0.3 [absorption]
\* reaches the failure min_confidence; every emitted LONG_FAILURE the mirror:
\* VAL or the lower band, at or below 100.2% of the recent low, delta > 0,
\* trend not BEARISH
C22_FailureConditions ==
    (call # None /\ ReturnedType \in {"SHORT_FAILURE", "LONG_FAILURE"}) =>
        LET price == Val(call).current_price
            t == Val(Val(call).tpo_data)
            v == Val(Val(call).vwap_data)
            o == Val(Val(call).orderflow_data)
            within(level) == level # 0 /\ Abs(price - level) * 1000 <= 2 * Abs(level)
            weight(flip, diverges) == 20 + (IF flip THEN 30 ELSE 0)
                                         + (IF diverges THEN 20 ELSE 0)
                                         + (IF o.absorption_detected THEN 30 ELSE 0)
        IN  /\ ReturnedType = "SHORT_FAILURE" =>
                /\ within(t.vah) \/ within(v.upper_1std)
                /\ recent_high # None
                /\ price * 1000 >= Val(recent_high) * 998
                /\ weight(o.delta < 0, o.delta_trend # "BULLISH")
                       >= failure_config.min_confidence
            /\ ReturnedType = "LONG_FAILURE" =>
                /\ within(t.val) \/ within(v.lower_1std)
                /\ recent_low # None
                /\ price * 1000 <= Val(recent_low) * 1002
                /\ weight(o.delta > 0, o.delta_trend # "BEARISH")
                       >= failure_config.min_confidence

\* a SHORT_FAILURE at the upper band, at the recent high, above the recent
\* low, whose weights just reach the minimum
C22_Witness ==
    /\ call # None
    /\ ReturnedType = "SHORT_FAILURE"
    /\ Val(call).current_price = 1002
    /\ recent_high = Some(1002)
    /\ recent_low # None
    /\ Val(recent_low) < 1002
    /\ Returned.raw_confidence = failure_config.min_confidence

\* a LONG_FAILURE at VAL, at the recent low, below the recent high
C22_LongWitness ==
    /\ call # None
    /\ ReturnedType = "LONG_FAILURE"
    /\ Val(call).current_price = 990
    /\ recent_low = Some(990)
    /\ recent_high # None
    /\ Val(recent_high) > 990

\* C23: in the per-candle pipeline an emitted failure signal has
\* conditions.delta_flip true only if the analyzer's delta flip holds at that
\* bar: the deltas of the two bars finalized last have strictly opposite sign
C23_AsStated ==
    (/\ Did("get_metrics")
     /\ call # None
     /\ ReturnedType \in {"SHORT_FAILURE", "LONG_FAILURE"}
     /\ Returned.conditions.delta_flip)
        => check_delta_flip(orderflow)

\* C24: every check_signals call, whatever it returns, leaves recent_high
\* the larger of its old value and the call's price and recent_low the
\* smaller (the price itself on the first call), so that they are the
\* maximum and the minimum of all prices passed so far, never move inwards,
\* and enclose the current price
C24_PriceTracking ==
    [][LET price == Val(call').current_price
       IN  /\ recent_high' = Some(IF recent_high = None THEN price
                                  ELSE Max(Val(recent_high), price))
           /\ recent_low' = Some(IF recent_low = None THEN price
                                 ELSE Min(Val(recent_low), price))
           /\ Val(recent_low') <= price
           /\ price <= Val(recent_high')
           /\ recent_high # None => Val(recent_high') >= Val(recent_high)
           /\ recent_low # None => Val(recent_low') <= Val(recent_low)]_vars

\* a call that returned no signal, in a cooldown, at a price strictly
\* between the lowest and the highest seen
C24_Witness ==
    /\ call # None
    /\ ReturnedType = "None"
    /\ Val(call).cooldown.failure
    /\ recent_low # None
    /\ recent_high # None
    /\ Val(recent_low) < Val(call).current_price
    /\ Val(call).current_price < Val(recent_high)

\* C25: in every emitted failure signal the condition flags reflect only the
\* rule that produced it: in a LONG_FAILURE delta_flip is true iff delta > 0
\* and cvd_divergence iff the CVD trend is not BEARISH, in a SHORT_FAILURE
\* delta_flip iff delta < 0 and cvd_divergence iff the trend is not BULLISH,
\* and absorption iff absorption was detected
C25_AsStated ==
    (call # None /\ ReturnedType \in {"SHORT_FAILURE", "LONG_FAILURE"}) =>
        LET o == Val(Val(call).orderflow_data)
            flags == Returned.conditions
        IN  /\ flags.absorption <=> o.absorption_detected
            /\ ReturnedType = "LONG_FAILURE" =>
                  /\ flags.delta_flip <=> o.delta > 0
                  /\ flags.cvd_divergence <=> o.delta_trend # "BEARISH"
            /\ ReturnedType = "SHORT_FAILURE" =>
                  /\ flags.delta_flip <=> o.delta < 0
                  /\ flags.cvd_divergence <=> o.delta_trend # "BULLISH"

(***************************************************************************)
(* The value area                                                          *)
(***************************************************************************)
\* the value area grown from [lo, hi] level by level, as C26 describes it:
\* nothing is added once the volume gathered reaches value_area_percent of
\* the total or no level is left on either side; otherwise the level next
\* above hi or the one next below lo, whichever has the larger volume, the
\* upper one when they have the same
RECURSIVE Grown(_, _, _, _)
Grown(profile, lo, hi, gathered) ==
    LET above == {p \in Levels(profile) : p > hi}
        below == {p \in Levels(profile) : p < lo}
        up == CHOOSE p \in above : \A q \in above : p <= q
        down == CHOOSE p \in below : \A q \in below : q <= p
    IN  IF gathered * 100 >= TPOConfig.value_area_percent * profile.total_volume
           \/ (above = {} /\ below = {})
        THEN [vah |-> hi, val |-> lo, value_area_volume |-> gathered]
        ELSE IF below = {}
                \/ (above # {}
                    /\ LevelVolume(profile, up) >= LevelVolume(profile, down))
        THEN Grown(profile, lo, up, gathered + LevelVolume(profile, up))
        ELSE Grown(profile, down, hi, gathered + LevelVolume(profile, down))

\* C26: the value area of every profile is a run of neighbouring price
\* levels that contains the POC, grown from the POC one level per step: the
\* neighbour with the larger volume is added, the upper one on a tie, and the
\* growth stops as soon as the volume gathered reaches the target or both
\* ends of the distribution are reached
C26_ValueAreaGrowth ==
    \A profile \in Profiles :
        LET area == Grown(profile, profile.poc, profile.poc,
                          LevelVolume(profile, profile.poc))
        IN  /\ profile.val = area.val
            /\ profile.vah = area.vah
            /\ profile.value_area_volume = area.value_area_volume

\* an update left a value area that grew upwards from the POC and not
\* downwards, where the level below the POC holds as much as the one above
C26_Witness ==
    /\ tpo_call # None
    /\ ~Val(tpo_call).raised
    /\ \E profile \in tpo.current_profile :
       \E up \in Levels(profile), down \in Levels(profile) :
          /\ profile.val = profile.poc
          /\ profile.vah = up
          /\ down < profile.poc
          /\ profile.poc < up
          /\ \A p \in Levels(profile) : ~(down < p /\ p < profile.poc)
          /\ \A p \in Levels(profile) : ~(profile.poc < p /\ p < up)
          /\ LevelVolume(profile, up) = LevelVolume(profile, down)

\* an update left a value area that grew downwards first: the level below
\* the POC holds more than the one above, which stays outside
C26_DownWitness ==
    /\ tpo_call # None
    /\ ~Val(tpo_call).raised
    /\ \E profile \in tpo.current_profile :
       \E up \in Levels(profile) :
          /\ profile.val < profile.poc
          /\ profile.vah = profile.poc
          /\ profile.poc < up

(***************************************************************************)
(* Structure events                                                        *)
(***************************************************************************)
\* the close of a candle is at a level and the close before it was on the
\* other side of it
Crossed(level, last, close) ==
    /\ is_near(close, level, TPOConfig.structure.proximity_ticks)
    /\ \/ last < level /\ close >= level
       \/ last > level /\ close <= level

\* C27: an update returns one structure event or none; none on the
\* analyzer's first call; a VAH event whenever the close crossed VAH,
\* otherwise a VAL event whenever it crossed VAL, otherwise a POC event
\* whenever it crossed POC, and INSIDE_VALUE_AREA or OUTSIDE_VALUE_AREA only
\* when it crossed none of the three
C27_EventPrecedence ==
    [][LET event == Val(tpo_call').event
           close == Val(tpo_call').candle.close
           profile == Val(tpo'.current_profile)
           last == Val(tpo.last_price)
       IN  /\ event \in TPOStructureEvent \cup {"None"}
           /\ tpo_call = None => event = "None"
           /\ (tpo.last_price # None /\ ~Val(tpo_call').raised) =>
                 IF Crossed(profile.vah, last, close)
                 THEN event \in {"VAH_BREAKOUT", "VAH_REJECTION"}
                 ELSE IF Crossed(profile.val, last, close)
                 THEN event \in {"VAL_BREAK", "VAL_BOUNCE"}
                 ELSE IF Crossed(profile.poc, last, close)
                 THEN event \in {"POC_RECLAIM", "POC_BREAKDOWN"}
                 ELSE event \in {"INSIDE_VALUE_AREA", "OUTSIDE_VALUE_AREA",
                                 "None"}]_vars

\* an update returned VAH_BREAKOUT for a close that came from below to a
\* value area of a single level, where VAL_BOUNCE and POC_RECLAIM match too
C27_Witness ==
    /\ tpo_call # None
    /\ Val(tpo_call).event = "VAH_BREAKOUT"
    /\ \E profile \in tpo.current_profile :
          /\ profile.vah = profile.val
          /\ profile.poc = profile.val

\* an update returned INSIDE_VALUE_AREA
C27_InsideWitness ==
    /\ tpo_call # None
    /\ Val(tpo_call).event = "INSIDE_VALUE_AREA"

\* the level of the profile an event is about
EventLevel(profile, event) ==
    IF event \in {"VAH_BREAKOUT", "VAH_REJECTION"} THEN profile.vah
    ELSE IF event \in {"VAL_BREAK", "VAL_BOUNCE"} THEN profile.val
    ELSE profile.poc

\* C28: an update returns a VAH, VAL or POC event only when the close is
\* within proximity_ticks * tick_size, in price units, of that level and the
\* close before it was on the other side: below, then at or above, for
\* VAH_BREAKOUT, POC_RECLAIM and VAL_BOUNCE; above, then at or below, for
\* VAH_REJECTION, POC_BREAKDOWN and VAL_BREAK
C28_AsStated ==
    [][LET event == Val(tpo_call').event
           close == Val(tpo_call').candle.close
           last == Val(tpo.last_price)
           level == EventLevel(Val(tpo'.current_profile), event)
       IN  /\ event \in {"VAH_BREAKOUT", "POC_RECLAIM", "VAL_BOUNCE"} =>
                 /\ Abs(close - level) <= TPOConfig.structure.proximity_ticks * TickSize
                 /\ last < level
                 /\ close >= level
           /\ event \in {"VAH_REJECTION", "POC_BREAKDOWN", "VAL_BREAK"} =>
                 /\ Abs(close - level) <= TPOConfig.structure.proximity_ticks * TickSize
                 /\ last > level
                 /\ close <= level]_vars

(***************************************************************************)
(* Sessions and time slices                                                *)
(***************************************************************************)
\* the analyzer a candle leaves when it is the first one ever fed
AloneIn(candle) == TPOAnalyzer_update(TPOAnalyzer, candle).analyzer

\* C29: an update with a candle of another session than the current one
\* makes the old session's last profile the previous_profile and starts
\* from cleared maps and a letter index reset to 0: the current profile,
\* the maps and the letter index come out as if the candle were the first
\* the analyzer ever received, with the new session's start and the volume
\* of this candle alone
C29_SessionChange ==
    [][LET candle == Val(tpo_call').candle
           session_start == get_session_start(candle.timestamp,
                                              TPOConfig.session_start)
       IN  (/\ tpo.current_session_start # None
            /\ session_start # None
            /\ session_start # tpo.current_session_start)
           => /\ tpo'.previous_profile = tpo.current_profile
              /\ tpo'.current_session_start = session_start
              /\ Val(tpo'.current_profile).session_start = Val(session_start)
              /\ tpo'.current_profile = AloneIn(candle).current_profile
              /\ tpo'.price_volume_map = AloneIn(candle).price_volume_map
              /\ tpo'.price_time_map = AloneIn(candle).price_time_map
              /\ tpo'.current_letter_index = AloneIn(candle).current_letter_index
              /\ tpo'.last_slice_time = Some(candle.timestamp)]_vars

\* the first candle of a second session has been added: the profile of the
\* first session, with volume at other prices, is the previous one, and the
\* current one holds this candle's volume alone
C29_Witness ==
    /\ tpo_call # None
    /\ ~Val(tpo_call).raised
    /\ Val(tpo_call).candle.volume > 0
    /\ tpo.previous_profile # None
    /\ tpo.current_profile = AloneIn(Val(tpo_call).candle).current_profile
    /\ Val(tpo.previous_profile).session_start
           < Val(tpo.current_profile).session_start
    /\ Val(tpo.previous_profile).total_volume
           > Val(tpo.current_profile).total_volume
    /\ Levels(Val(tpo.previous_profile)) \cap Levels(Val(tpo.current_profile)) = {}

\* C30: the candles of the first time slice of a session are tagged with
\* letter index 0 ('A'); within a session the letter index advances by
\* exactly one with each candle that arrives time_slice_minutes or more
\* after the candle that started the current slice, and stays as it is with
\* any other candle, so it never decreases
C30_AsStated ==
    [][LET candle == Val(tpo_call').candle
           session_start == get_session_start(candle.timestamp,
                                              TPOConfig.session_start)
       IN  ~Val(tpo_call').raised =>
             IF tpo.current_session_start # session_start
             THEN /\ tpo'.current_letter_index = 0
                  /\ \A i \in DOMAIN tpo'.price_time_map :
                        tpo'.price_time_map[i].letters = <<0>>
             ELSE IF candle.timestamp - Val(tpo.last_slice_time)
                        >= TPOConfig.time_slice_minutes
             THEN tpo'.current_letter_index = tpo.current_letter_index + 1
             ELSE tpo'.current_letter_index = tpo.current_letter_index]_vars

\* what holds of the letter index: the first slice of a session is tagged
\* with index 1 ('B'), and within the session the index advances as stated
C30_FirstSliceAtOne ==
    [][LET candle == Val(tpo_call').candle
           session_start == get_session_start(candle.timestamp,
                                              TPOConfig.session_start)
       IN  ~Val(tpo_call').raised =>
             IF tpo.current_session_start # session_start
             THEN /\ tpo'.current_letter_index = 1
                  /\ \A i \in DOMAIN tpo'.price_time_map :
                        tpo'.price_time_map[i].letters = <<1>>
             ELSE IF candle.timestamp - Val(tpo.last_slice_time)
                        >= TPOConfig.time_slice_minutes
             THEN tpo'.current_letter_index = tpo.current_letter_index + 1
             ELSE tpo'.current_letter_index = tpo.current_letter_index]_vars

(***************************************************************************)
(* The maps of a session                                                   *)
(***************************************************************************)
\* C31: for any sequence of candles of a session, the letter sequence stored
\* for each price holds each letter at most once, for candles with
\* high > low and for candles with high = low alike
C31_AsStated ==
    \A i \in DOMAIN tpo.price_time_map :
        LET letters == tpo.price_time_map[i].letters
        IN  \A j \in DOMAIN letters : \A k \in DOMAIN letters :
                letters[j] = letters[k] => j = k

\* C32: each update adds exactly the candle's volume to the price-to-volume
\* map, on top of what the session held (nothing, for the first candle of a
\* session), so the profile's total_volume is the sum of the volumes of the
\* session's candles
C32_AsStated ==
    [][LET candle == Val(tpo_call').candle
           session_start == get_session_start(candle.timestamp,
                                              TPOConfig.session_start)
           before == IF tpo.current_session_start = session_start
                     THEN total_volume(tpo.price_volume_map) ELSE 0
       IN  ~Val(tpo_call').raised =>
              /\ total_volume(tpo'.price_volume_map)
                     = before + candle.volume * VolScale
              /\ Val(tpo'.current_profile).total_volume
                     = total_volume(tpo'.price_volume_map)]_vars

(***************************************************************************)
(* The slope and the pullback counters of VWAPCalculator                    *)
(***************************************************************************)
\* C33: the slope in the VWAPData an update returns is the least-squares
\* slope, against their index, of the last slope_lookback_bars VWAP values
\* of the session, the VWAP of the candle just processed among them, and 0
\* when the session has fewer than two values
C33_AsStated ==
    (vwap_call # None /\ Val(vwap_call).result # None) =>
        /\ Len(vwap_calc.vwap_history) <= VWAPConfig.slope_lookback_bars
        /\ vwap_calc.vwap_history[Len(vwap_calc.vwap_history)]
               = Val(Val(vwap_call).result).vwap
        /\ Val(Val(vwap_call).result).slope
               = IF Len(vwap_calc.vwap_history) < 2 THEN Rat(0, 1)
                 ELSE calculate_slope(vwap_calc.vwap_history)

\* what holds: the slope returned is that of the VWAP values up to the
\* candle before the one just processed, and 0 for the first two candles of
\* a session
C33_SlopeLagsOneBar ==
    [][LET data == Val(Val(vwap_call').result)
           candle == Val(vwap_call').candle
           rollover == vwap_calc.current_session_start
                           # get_session_start(candle.timestamp,
                                               VWAPConfig.session_reset)
       IN  Val(vwap_call').result # None =>
              data.slope = IF rollover \/ Len(vwap_calc.vwap_history) < 2
                           THEN Rat(0, 1)
                           ELSE calculate_slope(vwap_calc.vwap_history)]_vars

\* C34: after every update at most one of consecutive_pullback_bars and
\* consecutive_rejection_bars is non-zero; a pullback bar adds one to the
\* pullback count and zeroes the rejection count, a rejection bar does the
\* reverse, a bar that is neither zeroes both, and a session rollover
\* starts both from 0
C34_PullbackCounters ==
    [][LET candle == Val(vwap_call').candle
           rollover == vwap_calc.current_session_start
                           # get_session_start(candle.timestamp,
                                               VWAPConfig.session_reset)
           pullbacks == IF rollover THEN 0 ELSE vwap_calc.consecutive_pullback_bars
           rejections == IF rollover THEN 0 ELSE vwap_calc.consecutive_rejection_bars
           counts == <<vwap_calc'.consecutive_pullback_bars,
                       vwap_calc'.consecutive_rejection_bars>>
       IN  /\ counts[1] = 0 \/ counts[2] = 0
           /\ ~Val(vwap_call').raised =>
                 IF is_pullback(vwap_calc', candle.close)
                 THEN counts = <<pullbacks + 1, 0>>
                 ELSE IF is_rejection(vwap_calc', candle.close)
                 THEN counts = <<0, rejections + 1>>
                 ELSE counts = <<0, 0>>]_vars

\* a pullback bar followed a rejection bar: the rejection count is back at 0
C34_Witness ==
    /\ vwap_call # None
    /\ ~Val(vwap_call).raised
    /\ vwap_calc.consecutive_pullback_bars = 1
    /\ vwap_calc.consecutive_rejection_bars = 0
    /\ Len(candles) >= 3
    /\ Len(vwap_calc.vwap_history) >= 3
    /\ is_pullback(vwap_calc, Val(vwap_call).candle.close)
    /\ LET before == candles[Len(candles) - 1].close
           history == vwap_calc.vwap_history
       IN  /\ WithinPercent(before, history[Len(history) - 2],
                            VWAPConfig.pullback.tolerance_percent)
           /\ ~WithinPercent(before, history[Len(history) - 1],
                             VWAPConfig.pullback.tolerance_percent)

(***************************************************************************)
(* The counts of consecutive buying and selling bars                       *)
(***************************************************************************)
\* the number of deltas at the end of a sequence that lie above the
\* significant threshold
RECURSIVE RunAbove(_)
RunAbove(deltas) ==
    IF deltas = <<>> THEN 0
    ELSE IF deltas[Len(deltas)] > OrderFlowConfig.delta.significant_threshold
    THEN 1 + RunAbove(SubSeq(deltas, 1, Len(deltas) - 1))
    ELSE 0

\* a step of finalize_bar, whether or not the absorption check after the
\* counting raised
FinalizedNow ==
    /\ of_call' # None
    /\ Val(of_call').op = "finalize_bar"
    /\ finalized' = Append(finalized, orderflow.current_delta)

\* C35: after every finalize_bar at most one of consecutive_buy_bars and
\* consecutive_sell_bars is non-zero: a bar whose delta lies above the
\* significant threshold adds one to the buy count and zeroes the sell
\* count, a bar whose delta lies below the negated threshold does the
\* reverse, and any other bar zeroes both; the buy count is the length of
\* the current run of bars with a delta above the threshold
C35_ConsecutiveBars ==
    [][FinalizedNow =>
         \E delta \in {orderflow.current_delta} :
         \E threshold \in {OrderFlowConfig.delta.significant_threshold} :
            /\ orderflow'.consecutive_buy_bars = 0
                  \/ orderflow'.consecutive_sell_bars = 0
            /\ <<orderflow'.consecutive_buy_bars,
                 orderflow'.consecutive_sell_bars>>
                  = IF delta > threshold
                    THEN <<orderflow.consecutive_buy_bars + 1, 0>>
                    ELSE IF delta < -threshold
                    THEN <<0, orderflow.consecutive_sell_bars + 1>>
                    ELSE <<0, 0>>
            /\ orderflow'.consecutive_buy_bars = RunAbove(finalized')]_vars

\* a second buying bar in a row, closed after a selling bar
C35_Witness ==
    /\ of_call # None
    /\ Val(of_call).op = "finalize_bar"
    /\ Len(finalized) >= 3
    /\ finalized[Len(finalized) - 2]
          < -OrderFlowConfig.delta.significant_threshold
    /\ orderflow.consecutive_buy_bars = 2
    /\ orderflow.consecutive_sell_bars = 0

\* a selling bar closed after a buying bar
C35_SellWitness ==
    /\ of_call # None
    /\ Val(of_call).op = "finalize_bar"
    /\ Len(finalized) >= 2
    /\ finalized[Len(finalized) - 1]
          > OrderFlowConfig.delta.significant_threshold
    /\ orderflow.consecutive_buy_bars = 0
    /\ orderflow.consecutive_sell_bars = 1

(***************************************************************************)
(* The session a timestamp falls in                                        *)
(***************************************************************************)
\* C36: for the timestamp t of every candle an analyzer is updated with,
\* get_session_start returns, without raising, the latest instant at the
\* configured time of day that is not after t, so that 0 <= t - result < 24
\* hours, also on the first day of a month before the session start time
C36_AsStated ==
    tpo_call # None =>
       \E t \in {Val(tpo_call).candle.timestamp} :
       \E session_start \in {get_session_start(t, TPOConfig.session_start)} :
          /\ session_start # None
          /\ 0 <= t - Val(session_start)
          /\ t - Val(session_start) < 1440
          /\ Val(session_start) % 1440 = TPOConfig.session_start

\* on every other day, and on the first of the month from the session start
\* time on, the result is the latest session start not after the timestamp
C36_AfterTheFirstSession ==
    tpo_call # None =>
       \E t \in {Val(tpo_call).candle.timestamp} :
       \E session_start \in {get_session_start(t, TPOConfig.session_start)} :
          t >= TPOConfig.session_start
             => /\ session_start # None
                /\ 0 <= t - Val(session_start)
                /\ t - Val(session_start) < 1440
                /\ Val(session_start) % 1440 = TPOConfig.session_start

(***************************************************************************)
(* The OI polling thread and the start-up                                  *)
(***************************************************************************)
\* C37: once start has brought the system to the running state
\* (is_running = True), the OI polling thread is alive, at its loop test,
\* fetching or delivering to update_oi, in every interleaving of the thread
\* with the start-up sequence
C37_AsStated ==
    is_running => pc.oi.step \in {"check", "fetch", "update_oi"}

\* a polling thread that tests is_running only after start has set it goes
\* on to fetch and to deliver
C37_PollingWhenLate ==
    [][(pc.oi.step = "check" /\ is_running) => pc'.oi.step # "exited"]_vars

\* the system running with its polling thread delivering an open interest
C37_DeliveringWitness ==
    /\ is_running
    /\ pc.oi.step = "update_oi"

(***************************************************************************)
(* The shutdown of a TradingSystem: a SIGINT or SIGTERM runs the handler    *)
(* that start installed (on the main thread, between two of its steps),    *)
(* the run loop of start tests is_running once a second, and its finally   *)
(* clause calls stop.                                                      *)
(***************************************************************************)
\* signal_handler: is_running = False
SignalHandler ==
    /\ pc.main.step \notin {"start", "returned"}
    /\ is_running' = FALSE
    /\ UNCHANGED <<alertVars, engineVars, analyzerVars, flowVars, pc, warmup_complete,
                   candle_call, orderbooks>>

\* start: while self.is_running: time.sleep(1), left for the finally clause
RunLoopExit ==
    /\ pc.main.step = "running"
    /\ ~is_running
    /\ Goto("main", "stop", None)
    /\ UNCHANGED <<alertVars, engineVars, analyzerVars, flowVars, is_running,
                   warmup_complete, candle_call, orderbooks>>

\* stop, called from the finally clause of start: nothing when is_running
\* is False, else stop_all (the feeds' WebSocket thread ends) and
\* is_running = False; start returns
Stop ==
    /\ pc.main.step = "stop"
    /\ IF ~is_running
       THEN /\ Goto("main", "returned", None)
            /\ UNCHANGED is_running
       ELSE /\ pc' = [pc EXCEPT !.main = At("returned", None),
                                !.ws = At("stopped", None)]
            /\ is_running' = FALSE
    /\ UNCHANGED <<alertVars, engineVars, analyzerVars, flowVars, warmup_complete,
                   candle_call, orderbooks>>

NextShutdown ==
    \/ Start
    \/ WarmupRecordBar
    \/ WarmupResetBar
    \/ WarmupComplete
    \/ GoLive
    \/ OnTradeBegin
    \/ OnTradeEnd
    \/ PollCheck
    \/ PollBegin
    \/ PollEnd
    \/ SignalHandler
    \/ RunLoopExit
    \/ Stop

SpecShutdown == InitAnalyzers /\ [][NextShutdown]_vars

\* C38: when a SIGINT or SIGTERM arrives while the system is running, the
\* run loop exits and the data feeds have been stopped (stop_all was
\* called) when start returns
C38_AsStated ==
    pc.main.step = "returned" => pc.ws.step = "stopped"

\* the run loop is left only with is_running False, and start returns only
\* through stop
C38_LoopLeftWhenNotRunning ==
    [][/\ (pc.main.step = "running" /\ pc'.main.step # "running")
            => (~is_running /\ pc'.main.step = "stop")
       /\ (pc.main.step # "returned" /\ pc'.main.step = "returned")
            => pc.main.step = "stop"]_vars

(***************************************************************************)
(* An AlertManager given signals of two symbols, in the order of their     *)
(* timestamps.                                                             *)
(***************************************************************************)
MaxAlerts == 4

\* signal timestamps in ms: minutes 0, 4, 5 and 9, and one more than an hour
\* after the first
AlertTimes == {0, 240000, 300000, 540000, 3660000}

\* the fields of a SignalEvent the AlertManager's throttling reads
AlertSignals ==
    [timestamp : AlertTimes,
     signal_type : {"LONG_ENTRY", "SHORT_ENTRY"},
     symbol : {"BTCUSDT", "ETHUSDT"}]

\* send_signal_alert with a signal not older than the one before
SendSignalAlert ==
    /\ Len(alerted) < MaxAlerts
    /\ \E signal \in AlertSignals :
          /\ alerted # <<>>
                => signal.timestamp >= alerted[Len(alerted)].signal.timestamp
          /\ \E r \in {send_signal_alert(alert_manager, signal)} :
                /\ alert_manager' = r.manager
                /\ alerted' = Append(alerted, [signal |-> signal,
                                               send |-> r.send])
    /\ UNCHANGED <<engineVars, analyzerVars, flowVars, systemVars>>

NextAlerts == SendSignalAlert

SpecAlerts == InitAnalyzers /\ [][NextAlerts]_vars

\* two alerts dispatched for the same symbol and signal type
SameKind(i, j) ==
    /\ i < j
    /\ alerted[i].send
    /\ alerted[j].send
    /\ alerted[i].signal.symbol = alerted[j].signal.symbol
    /\ alerted[i].signal.signal_type = alerted[j].signal.signal_type

\* C39: with throttling enabled, no two alerts dispatched for the same
\* symbol and signal type have signal timestamps less than
\* duplicate_window_seconds apart, whatever the sequence of
\* send_signal_alert calls
C39_AsStated ==
    \A i, j \in DOMAIN alerted :
       SameKind(i, j)
          => alerted[j].signal.timestamp - alerted[i].signal.timestamp
                >= alert_manager.duplicate_window * 1000

\* while recent_alerts has not been cleared, two alerts dispatched for the
\* same symbol and signal type lie in different windows of the clock,
\* counted from timestamp 0
C39_OncePerClockWindow ==
    \A i, j \in DOMAIN alerted :
       SameKind(i, j)
          => _get_alert_fingerprint(alert_manager, alerted[i].signal)
                # _get_alert_fingerprint(alert_manager, alerted[j].signal)

\* a signal held back as a duplicate of one dispatched in the same window
C39_ThrottledWitness ==
    \E i, j \in DOMAIN alerted :
       /\ i < j
       /\ alerted[i].send
       /\ ~alerted[j].send
       /\ alert_manager.hourly_alert_count < alert_manager.max_alerts_per_hour
       /\ _get_alert_fingerprint(alert_manager, alerted[i].signal)
             = _get_alert_fingerprint(alert_manager, alerted[j].signal)

====
